---- MODULE Spec2Model ----
(***************************************************************************)
(* Model of the medibot backend (src/main.py, src/backend/db.py,           *)
(* src/backend/chat.py, src/utils.py): the ChatDetails table, the          *)
(* /predict, /chat-message, /chat-history and /update-confidence handlers, *)
(* with the classifier, the LLM and storage faults as environment inputs.  *)
(*                                                                         *)
(* Probabilities are integers in units of 1e-5 (100000 = 1.0), so that the *)
(* floor 0.001 and the two-decimal percentage formatting are exact.        *)
(***************************************************************************)
EXTENDS Integers, Sequences, FiniteSets, TLC

\* ----------------------------------------------------------------- bounds
\* Rows the table may hold (predict is disabled beyond it).
MaxChats == 2
\* Rows already in the table when the service starts (a legacy installation).
MaxLegacy == 1
\* Turns a message log may hold (chat-message is disabled beyond it).
MaxMsgs == 3
\* Turns of the stored log of the conversation specification's legacy chat.
MaxStored == 2
\* Collaborator/storage faults the environment injects into one request.
MaxFaults == 1
\* Rows of the legacy table of the listing specification.
ListingChats == 7
\* Rows predict requests add while listings are served.
MaxInserts == 1
\* Accounts UserProfile may hold (signup of a new email is disabled beyond it).
MaxUsers == 2
\* Refresh tokens ever produced (signup and login are disabled beyond it).
MaxTokens == 3
\* Days the clock of the session specification may reach.
MaxDays == 7
\* Names in a symptom list handed to the vectorizer specification.
MaxLen == 4

\* ------------------------------------------------------- program constants
\* max(0.001, prob): the floor, in units of 1e-5.
FLOOR == 100
\* `if compute_count > 5`: the per-listing computation budget.
BUDGET == 5
\* per_page: Query(20, ge=5, le=100).
MinPerPage == 5
MaxPerPage == 100
\* utils.REFRESH_TOKEN_EXPIRE_DAYS
REFRESH_TOKEN_EXPIRE_DAYS == 7

\* ---------------------------------------------------------------- domains
Users == {1, 2}
None == "None"
\* utils.SYMPTOMS: the ordered vocabulary read from symptoms.csv.
SYMPTOMS == <<"fever", "cough">>
\* Names a request or a stored list may carry; "bogus" is not in SYMPTOMS.
Names == {"fever", "cough", "bogus"}
\* utils.PREDICTION_MODEL: the loaded classifier, a fixed function of the
\* input vector.  The weights are not part of the sources; this table stands
\* for them: the predicted class (argmax) and its probability (max, units of
\* 1e-5; n stands for the double nearest to n/100000).  It returns 0.0
\* for one vector, a value under the floor for another, and a class without a
\* disease_mapping row for a third.  That a call may instead raise is an input
\* of each handler.
PREDICTION_MODEL(vec) ==
    CASE vec = <<1, 0>> -> [cls |-> 0, prob |-> 73424]
      [] vec = <<0, 1>> -> [cls |-> 1, prob |-> 0]
      [] vec = <<1, 1>> -> [cls |-> 2, prob |-> 98765]
      [] OTHER -> [cls |-> 0, prob |-> 40]
Queries == {"q1"}
Responses == {"r1"}

Max(a, b) == IF a >= b THEN a ELSE b
Min(a, b) == IF a <= b THEN a ELSE b

\* ------------------------------------------------------ stored column values
\* The symptoms column is JSON text or NULL.  kind: "null" (NULL), "empty"
\* (''), "invalid" (text json.loads rejects), "nonlist" (JSON that is not an
\* array: '{"fever": 1}', truthy, items what iterating it yields), "list" (a
\* JSON array, items its elements).
SymNull == [kind |-> "null", items |-> <<>>]
SymEmpty == [kind |-> "empty", items |-> <<>>]
SymInvalid == [kind |-> "invalid", items |-> <<>>]
SymNonList == [kind |-> "nonlist", items |-> <<"fever">>]
SymList(items) == [kind |-> "list", items |-> items]

\* json.dumps(symptoms) if symptoms else None
DumpsSymptoms(symptoms) == IF symptoms = <<>> THEN SymNull ELSE SymList(symptoms)

\* Variant: the parsed JSON is used without the isinstance(list) test.
StoredSymptoms_NoListCheck(col) ==
    IF col.kind \in {"list", "nonlist"} THEN col.items ELSE <<>>

\* json.loads on the symptoms column followed by the isinstance(list) test:
\* the list, or [] when the text is not a JSON array or not JSON.
StoredSymptoms(col) == IF col.kind = "list" THEN col.items ELSE <<>>

\* ----------------------------------------------------------- pure functions
\* Variant: an entry counts the occurrences of its name.
create_input_vector_Counting(selected_symptoms) ==
    [i \in 1..Len(SYMPTOMS) |->
        Cardinality({j \in 1..Len(selected_symptoms) : selected_symptoms[j] = SYMPTOMS[i]})]

\* utils.create_input_vector: one entry per vocabulary name, 1 where the name
\* occurs in selected_symptoms; names outside the vocabulary are skipped.
create_input_vector(selected_symptoms) ==
    [i \in 1..Len(SYMPTOMS) |->
        IF \E j \in 1..Len(selected_symptoms) : selected_symptoms[j] = SYMPTOMS[i]
        THEN 1 ELSE 0]

Digit(d) ==
    CASE d = 0 -> "0" [] d = 1 -> "1" [] d = 2 -> "2" [] d = 3 -> "3"
      [] d = 4 -> "4" [] d = 5 -> "5" [] d = 6 -> "6" [] d = 7 -> "7"
      [] d = 8 -> "8" [] d = 9 -> "9"

RECURSIVE NatStr(_)
NatStr(n) == IF n < 10 THEN Digit(n) ELSE NatStr(n \div 10) \o Digit(n % 10)

\* (r * 2^e) mod m, by repeated doubling.
RECURSIVE DoubleMod(_, _, _)
DoubleMod(r, e, m) ==
    IF e = 0 THEN r % m
    ELSE IF e >= 10 THEN DoubleMod((1024 * r) % m, e - 10, m)
    ELSE DoubleMod((2 * r) % m, e - 1, m)

\* The least p >= 0 with n * 2^p >= d, for n >= 1.
RECURSIVE Doublings(_, _)
Doublings(n, d) == IF n >= d THEN 0 ELSE 1 + Doublings(2 * n, d)

\* The greatest j >= 0 with n >= d * 2^j, for n >= d.
RECURSIVE Halvings(_, _)
Halvings(n, d) == IF n < 2 * d THEN 0 ELSE 1 + Halvings(n, 2 * d)

\* f"{prob:.2%}" for a prob whose percentage n/1000 lies half way between
\* two hundredths (n % 10 = 5): whether the digits go up.  The float is the
\* double x = M / 2^e nearest to n/100000; float.__format__ multiplies it by
\* 100 in double arithmetic and prints the product correctly rounded, so the
\* direction is the sign of (product - n/1000), and round-half-even when the
\* product is n/1000 exactly.  err is n*2^e - M*100000; the product is the
\* 53-bit rounding of n/1000 - err/(1000 * 2^e), whose mantissa is q + c
\* with n * 2^e2 = q * 1000 + t.
TieGoesUp(n) ==
    LET e == Doublings(n, 100000) + 52
        r == DoubleMod(n % 100000, e, 100000)
        err == IF r < 50000 THEN r ELSE r - 100000
        e2 == IF n >= 1000 THEN 52 - Halvings(n, 1000) ELSE 52 + Doublings(n, 1000)
        d == e - e2
        t2 == DoubleMod(n % 2000, e2, 2000)
        t == t2 % 1000
        odd == t2 >= 1000
        F == t * (2 ^ d) - err
        H == 500 * (2 ^ d)
        W == 1000 * (2 ^ d)
        c == IF F < -H THEN -1
             ELSE IF F = -H THEN (IF odd THEN -1 ELSE 0)
             ELSE IF F < H THEN 0
             ELSE IF F = H THEN (IF odd THEN 1 ELSE 0)
             ELSE IF F < W + H THEN 1
             ELSE 2
        diff == c * 1000 - t
    IN IF diff > 0 THEN TRUE
       ELSE IF diff < 0 THEN FALSE
       ELSE (n \div 10) % 2 = 1

\* f"{prob:.2%}": prob*100 rounded to two decimals, then "%".  prob is in
\* units of 1e-5 and stands for the double nearest to prob/100000, so the
\* result is prob/10 rounded to hundredths of a percent, a value half way
\* going by the binary value of the double.
FormatPercent(prob) ==
    LET bp == IF prob % 10 = 5
              THEN prob \div 10 + (IF TieGoesUp(prob) THEN 1 ELSE 0)
              ELSE (prob + 5) \div 10
    IN NatStr(bp \div 100) \o "." \o Digit((bp \div 10) % 10) \o Digit(bp % 10) \o "%"

\* Variant: the probability is formatted as the classifier gave it.
ClampProb_NoFloor(prob) == prob

\* prob = max(0.001, prob)
ClampProb(prob) == Max(FLOOR, prob)

\* confidence_value = f"{max(0.001, prob):.2%}"
ConfidenceStr(prob) == FormatPercent(ClampProb(prob))

\* ------------------------------------------------------------------- state
VARIABLES
    chats,       \* ChatDetails: chat_id (1..Len) -> row
    hasConfCol,  \* whether ChatDetails has the confidence column
    now,         \* the clock datetime.now() reads
    resp,        \* the response of the last request
    calls,       \* collaborator invocations made by the last request
    log,         \* what the last request printed about swallowed errors
    pre,         \* history: ChatDetails as it was when the last request arrived
    preCol,      \* history: hasConfCol when the last request arrived
    users,       \* UserProfile: user_id (1..Len) -> row
    tokens,      \* RefreshTokens: the set of rows
    issued,      \* how many refresh tokens create_refresh_token has produced
    preUsers,    \* history: UserProfile when the last request arrived
    preTokens,   \* history: RefreshTokens when the last request arrived
    inflight     \* worker process -> the request it is serving, and where it is

vars == <<chats, hasConfCol, now, resp, calls, log, pre, preCol,
          users, tokens, issued, preUsers, preTokens, inflight>>

\* The handlers are `async def` without an await: inside one server process
\* a request runs from arrival to response with no other request in between.
\* Requests served by different worker processes of the same database.db do
\* interleave, at their database accesses; Workers are those processes.
Workers == {1, 2}
IdleWorker == [pc |-> "idle"]
NoneInFlight == inflight = [w \in Workers |-> IdleWorker]
\* A worker that serves no request, or has answered the one it served.
Free(w) == inflight[w].pc \in {"idle", "done"}

\* Every handler leaves in the history variables the tables it started from.
Arrived ==
    /\ pre' = chats
    /\ preCol' = hasConfCol
    /\ preUsers' = users
    /\ preTokens' = tokens
    /\ UNCHANGED inflight

\* bcrypt.hashpw(password, bcrypt.gensalt()): a string that is not the
\* password and that exactly this password verifies; the salt, which makes
\* two hashes of one password differ, is left out.
hash_password(password) == "$2b$" \o password

\* bcrypt.checkpw(password, hashed)
verify_password(password, hashed) == hashed = hash_password(password)

\* A UserProfile row as signup inserts it.
UserRow(email, password) == [email |-> email, password_hash |-> hash_password(password)]

\* The accounts of the callers of the chat handlers (Users), no session open.
SeedUsers == <<UserRow("a@x.com", "pw1pw1"), UserRow("b@x.com", "pw2pw2")>>
Registered ==
    /\ users = SeedUsers
    /\ tokens = {}
    /\ issued = 0
    /\ preUsers = users
    /\ preTokens = tokens
    /\ NoneInFlight

\* A row written before the confidence column existed: no confidence.
LegacyRow(user_id, symptoms, created_at) ==
    [user_id |-> user_id, messages |-> <<>>, disease |-> "Flu",
     symptoms |-> symptoms, confidence |-> None, created_at |-> created_at]

LegacySymptoms ==
    {SymNull, SymEmpty, SymInvalid, SymNonList, SymList(<<>>), SymList(<<"fever">>),
     SymList(<<"cough">>)}

NoResp == [op |-> "none", user |-> 0, status |-> 0, detail |-> ""]

\* The table after init_db()/migrate_db() on an installation that may already
\* hold rows.  Both add the confidence column and swallow a failing ALTER
\* TABLE, so the column is normally there and is missing only if both failed.
Init ==
    /\ \E n \in 0..MaxLegacy :
         \E owner \in [1..n -> Users], sym \in [1..n -> LegacySymptoms] :
            chats = [i \in 1..n |-> LegacyRow(owner[i], sym[i], i)]
    /\ hasConfCol \in BOOLEAN
    /\ now = MaxLegacy + 1
    /\ resp = NoResp
    /\ calls = <<>>
    /\ log = <<>>
    /\ pre = chats
    /\ preCol = hasConfCol
    /\ Registered

\* --------------------------------------------------------------- storage
ChatIds(table) == 1..Len(table)

\* Variant: the lookup does not filter by owner.
OwnedBy_AnyUser(table, user_id) == ChatIds(table)

\* SELECT ... FROM ChatDetails WHERE chat_id = ? AND user_id = ?
OwnedBy(table, user_id) == {id \in ChatIds(table) : table[id].user_id = user_id}

\* disease_mapping.loc[disease_mapping['Encoded'] == predicted_class]['Disease']
disease_mapping == {[Encoded |-> 0, Disease |-> "Flu"], [Encoded |-> 1, Disease |-> "Cold"]}
MappedDiseases(predicted_class) ==
    {r.Disease : r \in {m \in disease_mapping : m.Encoded = predicted_class}}

\* Variant: the row is inserted without its confidence.
create_chat_WithoutConfidence(table, col, user_id, time_str, messages_dict, disease, symptoms, confidence, alterOk) ==
    LET col2 == col \/ alterOk
        row == [user_id |-> user_id, messages |-> messages_dict, disease |-> disease,
                symptoms |-> DumpsSymptoms(symptoms), confidence |-> None,
                created_at |-> time_str]
    IN IF col2
       THEN [ok |-> TRUE, table |-> Append(table, row), col |-> col2, id |-> Len(table) + 1]
       ELSE [ok |-> FALSE, table |-> table, col |-> col2, id |-> 0]

\* db.create_chat.  alterOk: whether ALTER TABLE succeeds when the column is
\* missing.  The INSERT names the confidence column; without it sqlite raises
\* "table ChatDetails has no column named confidence", which does not contain
\* "no such column", so the fallback INSERT is not taken and the error is
\* re-raised.  Result: [ok, table, col, id].
create_chat(table, col, user_id, time_str, messages_dict, disease, symptoms, confidence, alterOk) ==
    LET col2 == col \/ alterOk
        row == [user_id |-> user_id, messages |-> messages_dict, disease |-> disease,
                symptoms |-> DumpsSymptoms(symptoms), confidence |-> confidence,
                created_at |-> time_str]
    IN IF col2
       THEN [ok |-> TRUE, table |-> Append(table, row), col |-> col2, id |-> Len(table) + 1]
       ELSE [ok |-> FALSE, table |-> table, col |-> col2, id |-> 0]

\* ---------------------------------------------------------------- /predict
RequestSymptoms == {<<"fever">>, <<"cough">>, <<"fever", "cough">>, <<"fever", "bogus">>}

\* invalid_symptoms = [s for s in selected_symptoms if s not in SYMPTOMS]
InVocabulary(name) == \E i \in 1..Len(SYMPTOMS) : SYMPTOMS[i] = name
invalid_symptoms(selected_symptoms) ==
    SelectSeq(selected_symptoms, LAMBDA s : ~InVocabulary(s))

ClassifierCall(chat, vec, prob) ==
    [svc |-> "classifier", chat |-> chat, vec |-> vec, prob |-> prob]
\* prob of a call that raised
Raised == -1

\* The status an HTTPException raised inside predict's try block leaves the
\* handler with: `except Exception` catches it (HTTPException is an Exception)
\* and raises a 500 in its place.
PredictRaise(status) == 500

predict(user, selected_symptoms) ==
    /\ Len(chats) < MaxChats
    /\ Arrived /\ UNCHANGED <<users, tokens, issued>>
    /\ LET bad == invalid_symptoms(selected_symptoms)
           vec == create_input_vector(selected_symptoms)
           Fail(status, detail, made) ==
               /\ resp' = [op |-> "predict", user |-> user, status |-> status,
                           detail |-> detail, symptoms |-> selected_symptoms]
               /\ calls' = made
               /\ UNCHANGED <<chats, now>>
       IN IF bad # <<>>
          THEN /\ Fail(PredictRaise(400), "Invalid symptoms", <<>>)
               /\ UNCHANGED hasConfCol
          ELSE \/ \* PREDICTION_MODEL.predict raises
                  /\ Fail(500, "Prediction failed", <<ClassifierCall(0, vec, Raised)>>)
                  /\ UNCHANGED hasConfCol
               \/ \E alterOk \in BOOLEAN :
                    LET prediction == PREDICTION_MODEL(vec)
                        predicted_class == prediction.cls
                        probability == prediction.prob
                        made == <<ClassifierCall(0, vec, probability)>>
                        found == MappedDiseases(predicted_class)
                        confidence_str == ConfidenceStr(probability)
                    IN IF found = {}
                       THEN \* .iloc[0] on an empty frame: IndexError
                            /\ Fail(500, "Disease mapping not found", made)
                            /\ UNCHANGED hasConfCol
                       ELSE LET actual_disease == CHOOSE d \in found : TRUE
                                r == create_chat(chats, hasConfCol, user, now, <<>>,
                                                 actual_disease, selected_symptoms,
                                                 confidence_str, alterOk)
                            IN /\ hasConfCol' = r.col
                               /\ IF r.ok
                                  THEN /\ chats' = r.table
                                       /\ now' = now + 1
                                       /\ calls' = made
                                       /\ resp' = [op |-> "predict", user |-> user,
                                                   status |-> 200, detail |-> "",
                                                   symptoms |-> selected_symptoms,
                                                   disease |-> actual_disease,
                                                   confidence |-> confidence_str,
                                                   symptoms_count |-> Len(selected_symptoms),
                                                   chat_id |-> r.id]
                                  ELSE Fail(500, "Prediction failed", made)
    /\ log' = <<>>

\* ----------------------------------------------------------- /chat-history
\* ids of the user's rows, ORDER BY created_at DESC
RECURSIVE OrderDesc(_, _)
OrderDesc(table, ids) ==
    IF ids = {} THEN <<>>
    ELSE LET top == CHOOSE i \in ids : \A j \in ids : table[j].created_at <= table[i].created_at
         IN <<top>> \o OrderDesc(table, ids \ {top})

\* Variant: the page is cut from the chats of every user.
PageIds_AnyUser(table, user_id, page, per_page) ==
    LET all == OrderDesc(table, ChatIds(table))
        offset == (page - 1) * per_page
    IN SubSeq(all, offset + 1, Min(Len(all), offset + per_page))

\* ... LIMIT per_page OFFSET (page - 1) * per_page
PageIds(table, user_id, page, per_page) ==
    LET all == OrderDesc(table, OwnedBy(table, user_id))
        offset == (page - 1) * per_page
    IN SubSeq(all, offset + 1, Min(Len(all), offset + per_page))

\* Variant: `in` for `not in` in the test against the zero strings.
has_valid_confidence_Inverted(hasCol, inRow, confidence) ==
    /\ hasCol
    /\ inRow
    /\ confidence # None
    /\ confidence \in {"", "0%", "0.00%"}

\* has_valid_confidence: hasCol is the PRAGMA answer at this row, inRow whether
\* the fetched row carries a confidence key (the column existed at the SELECT).
has_valid_confidence(hasCol, inRow, confidence) ==
    /\ hasCol
    /\ inRow
    /\ confidence # None
    /\ confidence \notin {"", "0%", "0.00%"}

\* The placeholder of a skipped or failed computation.
PLACEHOLDER == "0.10%"

\* setattr(conn, '_compute_count', n): conn is a sqlite3.Connection (get_db),
\* which has no instance dictionary, so the assignment raises AttributeError.
ConnAcceptsAttr == FALSE

\* Whether the budget branch is entered for a row that is to be computed:
\* should_compute and not recompute_confidence and not has_confidence_column.
BudgetApplies(recompute_confidence, hasCol) == ~recompute_confidence /\ ~hasCol

\* Variant: the counter is process-wide; a call starts from the attempts the
\* request answered before it printed.
HistStart_ProcessWide(table, col) ==
    [table |-> table, col |-> col, out |-> <<>>, calls |-> <<>>, log |-> <<>>,
     count |-> Len(log), faults |-> 0]

\* The running state of one chat_hist call: the table and column as written so
\* far, the ChatDetails entries appended, the classifier calls, the printed
\* errors, conn's _compute_count and the faults injected.
HistStart(table, col) ==
    [table |-> table, col |-> col, out |-> <<>>, calls |-> <<>>, log |-> <<>>,
     count |-> 0, faults |-> 0]

Emit(st, id, c, confidence) ==
    [st EXCEPT !.out = Append(@, [chat_id |-> id, created_at |-> c.created_at,
                                  messages |-> c.messages, disease |-> c.disease,
                                  confidence |-> confidence])]

Logged(st, ev, id) == [st EXCEPT !.log = Append(@, [ev |-> ev, chat |-> id])]

\* Variant: the computed confidence is returned but never written.
WriteBack_NoUpdate(st, id, confidence) == {st}

\* The write-back of a computed confidence (main.py 541-568), from state st
\* whose classifier call is recorded: the set of possible outcomes.
WriteBack(st, id, confidence) ==
    LET canFault == st.faults < MaxFaults
        \* ALTER TABLE when PRAGMA shows no confidence column
        altered == IF st.col THEN {st}
                   ELSE {[st EXCEPT !.col = TRUE]}
                        \cup IF canFault
                             THEN {Logged([st EXCEPT !.faults = @ + 1], "alter_error", id)}
                             ELSE {}
        \* UPDATE ChatDetails SET confidence = ? WHERE chat_id = ?
        Update(s) ==
            IF ~s.col THEN {Logged(s, "db_error", id)}
            ELSE {[s EXCEPT !.table[id].confidence = confidence]}
                 \cup IF s.faults < MaxFaults
                      THEN {Logged([s EXCEPT !.faults = @ + 1], "db_error", id)}
                      ELSE {}
    IN UNION {Update(s) : s \in altered}

\* Variant: a failed computation writes the placeholder to the row.
Compute_PersistPlaceholder(st, id, c, stored_symptoms) ==
    LET vec == create_input_vector(stored_symptoms)
        failed == IF st.faults < MaxFaults
                  THEN {Emit(Logged([st EXCEPT !.faults = @ + 1,
                                               !.calls = Append(@, ClassifierCall(id, vec, Raised)),
                                               !.table[id].confidence = PLACEHOLDER],
                                    "compute_error", id),
                             id, c, PLACEHOLDER)}
                  ELSE {}
        Done(prob) ==
            LET confidence_value == ConfidenceStr(prob)
                called == [st EXCEPT !.calls = Append(@, ClassifierCall(id, vec, prob))]
            IN {Emit(s, id, c, confidence_value) : s \in WriteBack(called, id, confidence_value)}
    IN failed \cup Done(PREDICTION_MODEL(vec).prob)

\* The computation of one row (main.py 530-539) and its write-back.
Compute(st, id, c, stored_symptoms) ==
    LET vec == create_input_vector(stored_symptoms)
        failed == IF st.faults < MaxFaults
                  THEN {Emit(Logged([st EXCEPT !.faults = @ + 1,
                                               !.calls = Append(@, ClassifierCall(id, vec, Raised))],
                                    "compute_error", id),
                             id, c, PLACEHOLDER)}
                  ELSE {}
        Done(prob) ==
            LET confidence_value == ConfidenceStr(prob)
                called == [st EXCEPT !.calls = Append(@, ClassifierCall(id, vec, prob))]
            IN {Emit(s, id, c, confidence_value) : s \in WriteBack(called, id, confidence_value)}
    IN failed \cup Done(PREDICTION_MODEL(vec).prob)

\* The confidence block of the loop body (main.py 475-574) for fetched row c.
ProcessRow(st, id, c, inRow, recompute_confidence) ==
    IF has_valid_confidence(st.col, inRow, c.confidence)
    THEN {Emit(st, id, c, c.confidence)}
    ELSE IF c.symptoms.kind \in {"null", "empty"}
    THEN {Emit(st, id, c, None)}
    ELSE LET stored_symptoms == StoredSymptoms(c.symptoms)
         IN IF stored_symptoms = <<>>
            THEN {Emit(st, id, c, None)}
            ELSE IF BudgetApplies(recompute_confidence, st.col)
            THEN IF st.count > BUDGET
                 THEN {Emit(st, id, c, PLACEHOLDER)}
                 ELSE IF ConnAcceptsAttr
                 THEN Compute([st EXCEPT !.count = @ + 1], id, c, stored_symptoms)
                 ELSE {Emit(Logged(st, "compute_error", id), id, c, PLACEHOLDER)}
            ELSE Compute(st, id, c, stored_symptoms)

\* for c in chat_data: the rows were fetched before the loop, so each c is the
\* row as it was at the SELECT.
RECURSIVE HistLoop(_, _, _, _, _, _)
HistLoop(sts, ids, i, snapshot, inRow, recompute_confidence) ==
    IF i > Len(ids) THEN sts
    ELSE HistLoop(UNION {ProcessRow(st, ids[i], snapshot[ids[i]], inRow, recompute_confidence)
                         : st \in sts},
                  ids, i + 1, snapshot, inRow, recompute_confidence)

\* PaginationInfo(page, per_page, total, pages): pages is the ceiling division
\* (total_count + per_page - 1) // per_page.  The response field pagination
\* is Optional: <<>> when absent, a one-element sequence when present.
PaginationInfo(page, per_page, total_count) ==
    [page |-> page, per_page |-> per_page, total |-> total_count,
     pages |-> (total_count + per_page - 1) \div per_page]

chat_hist(user, page, per_page, recompute_confidence) ==
    LET ids == PageIds(chats, user, page, per_page)
        total_count == Cardinality(OwnedBy(chats, user))
        head == [op |-> "chat_hist", user |-> user, status |-> 200, detail |-> "",
                 page |-> page, per_page |-> per_page,
                 recompute |-> recompute_confidence]
    IN /\ now' = now
       /\ Arrived /\ UNCHANGED <<users, tokens, issued>>
       /\ IF ids = <<>>
          THEN \* return ChatHistory(chats=[])
               /\ resp' = head @@ [chats |-> <<>>, pagination |-> <<>>]
               /\ calls' = <<>>
               /\ log' = <<>>
               /\ UNCHANGED <<chats, hasConfCol>>
          ELSE \E st \in HistLoop({HistStart(chats, hasConfCol)}, ids, 1, chats,
                                  hasConfCol, recompute_confidence) :
                 /\ chats' = st.table
                 /\ hasConfCol' = st.col
                 /\ calls' = st.calls
                 /\ log' = st.log
                 /\ resp' = head @@ [chats |-> st.out,
                                     pagination |-> <<PaginationInfo(page, per_page,
                                                                     total_count)>>]

\* ------------------------------------------------------ /update-confidence
update_confidence(user, chat_id) ==
    LET Fail(status, detail, made) ==
            /\ resp' = [op |-> "update_confidence", user |-> user, status |-> status,
                        detail |-> detail, chat_id |-> chat_id]
            /\ calls' = made
            /\ UNCHANGED chats
    IN /\ now' = now
       /\ log' = <<>>
       /\ Arrived /\ UNCHANGED <<users, tokens, issued>>
       /\ IF chat_id \notin OwnedBy(chats, user)
          THEN Fail(404, "Chat not found", <<>>) /\ UNCHANGED hasConfCol
          ELSE LET c == chats[chat_id]
                   stored_symptoms == StoredSymptoms(c.symptoms)
                   vec == create_input_vector(stored_symptoms)
               IN IF c.symptoms.kind \in {"null", "empty"}
                  THEN Fail(400, "No symptoms found for this chat", <<>>) /\ UNCHANGED hasConfCol
                  ELSE IF c.symptoms.kind = "invalid"
                  THEN Fail(400, "Failed to parse symptoms data", <<>>) /\ UNCHANGED hasConfCol
                  ELSE IF stored_symptoms = <<>>
                  THEN Fail(400, "Invalid symptoms data", <<>>) /\ UNCHANGED hasConfCol
                  ELSE \/ \* the classifier raises
                          /\ Fail(500, "Failed to update confidence",
                                  <<ClassifierCall(chat_id, vec, Raised)>>)
                          /\ UNCHANGED hasConfCol
                       \/ \E alterOk \in BOOLEAN, updateOk \in BOOLEAN :
                            LET prob == PREDICTION_MODEL(vec).prob
                                made == <<ClassifierCall(chat_id, vec, prob)>>
                                confidence_value == ConfidenceStr(prob)
                                col2 == hasConfCol \/ alterOk
                            IN /\ hasConfCol' = col2
                               /\ IF ~col2
                                  THEN Fail(500, "Error managing database schema", made)
                                  ELSE IF ~updateOk
                                  THEN Fail(500, "Failed to update confidence", made)
                                  ELSE /\ chats' = [chats EXCEPT ![chat_id].confidence =
                                                                     confidence_value]
                                       /\ calls' = made
                                       /\ resp' = [op |-> "update_confidence", user |-> user,
                                                   status |-> 200, detail |-> "",
                                                   chat_id |-> chat_id,
                                                   confidence |-> confidence_value]

\* ------------------------------------------------------------ /chat-message
\* The stored message log is a JSON object; it is modelled as the sequence of
\* its entries in storage order, each [key, query, response] with key the
\* number n of "message<n>"; an entry with numeric = FALSE stands for a key
\* whose suffix is not a digit string ("message<n>x").
Turn(key, query, response) ==
    [key |-> key, numeric |-> TRUE, query |-> query, response |-> response]

\* key=lambda k: int(k.replace('message', '')) if ...isdigit() else 0
SortKey(msg) == IF msg.numeric THEN msg.key ELSE 0

\* Variant: the turns are replayed in storage order.
SortedTurns_StorageOrder(history) == history

\* sorted(stored_history.keys(), key=...): a stable sort of the storage order.
RECURSIVE SortedTurns(_)
SortedTurns(history) ==
    IF history = <<>> THEN <<>>
    ELSE LET i == CHOOSE k \in 1..Len(history) :
                     /\ \A j \in 1..Len(history) : SortKey(history[k]) <= SortKey(history[j])
                     /\ \A j \in 1..(k - 1) : SortKey(history[j]) # SortKey(history[k])
             rest == [j \in 1..(Len(history) - 1) |-> IF j < i THEN history[j] ELSE history[j + 1]]
         IN <<history[i]>> \o SortedTurns(rest)

\* The HumanMessage/AIMessage list replayed from the stored turns.
RECURSIVE Replay(_)
Replay(turns) ==
    IF turns = <<>> THEN <<>>
    ELSE LET msg == Head(turns)
         IN (IF msg.query \notin {None, ""}
             THEN <<[role |-> "human", content |-> msg.query]>> ELSE <<>>)
            \o (IF msg.response \notin {None, ""}
                THEN <<[role |-> "ai", content |-> msg.response]>> ELSE <<>>)
            \o Replay(Tail(turns))

\* chat.get_query: template_str.format(disease=disease, query_text=query) for
\* a query that is not one of SUGGESTED_QUERIES.
HumanText(disease, query) == "Disease: " \o disease \o "\n" \o query

\* next_msg_num: max over the keys whose suffix is a digit string, plus one.
RECURSIVE MaxKey(_)
MaxKey(history) ==
    IF history = <<>> THEN 0
    ELSE Max(IF Head(history).numeric THEN Head(history).key ELSE 0, MaxKey(Tail(history)))
\* Variant: the next key is the number of stored turns plus one.
NextMsgNum_ByLength(history) == Len(history) + 1

NextMsgNum(history) == IF history = <<>> THEN 1 ELSE MaxKey(history) + 1

\* The status an HTTPException raised inside conversation's try block leaves
\* the handler with: `except Exception` catches it and raises a 500.
ConversationRaise(status) == 500

\* Variant: the turn is stored before the model answers, so a failed LLM
\* call leaves the query in the log without a response.
ConversationFail_PartialTurn(user, chat_id, query, status, detail, made) ==
    /\ resp' = [op |-> "conversation", user |-> user, status |-> status,
                detail |-> detail, chat_id |-> chat_id, query |-> query]
    /\ calls' = made
    /\ chats' = IF made = <<>> THEN chats
                ELSE [chats EXCEPT ![chat_id].messages =
                         Append(@, Turn(NextMsgNum(@), query, None))]

\* An exception inside conversation's try block: nothing was written (the
\* UPDATE comes after get_query), the handler raises the HTTPException.
ConversationFail(user, chat_id, query, status, detail, made) ==
    /\ resp' = [op |-> "conversation", user |-> user, status |-> status,
                detail |-> detail, chat_id |-> chat_id, query |-> query]
    /\ calls' = made
    /\ UNCHANGED chats

\* Variant: the UPDATE rewrites the row and leaves its confidence NULL.
UpdateMessages_ResetsConfidence(table, user_id, chat_id, history) ==
    [id \in ChatIds(table) |->
        IF id = chat_id /\ table[id].user_id = user_id
        THEN [table[id] EXCEPT !.messages = history, !.confidence = None]
        ELSE table[id]]

\* Variant: the UPDATE adds the new turn to the log as it is stored now.
UpdateMessages_Merging(table, user_id, chat_id, history) ==
    [id \in ChatIds(table) |->
        IF id = chat_id /\ table[id].user_id = user_id
        THEN [table[id] EXCEPT !.messages = Append(@, history[Len(history)])]
        ELSE table[id]]

\* UPDATE ChatDetails SET messages = ? WHERE chat_id = ? AND user_id = ?
UpdateMessages(table, user_id, chat_id, history) ==
    [id \in ChatIds(table) |->
        IF id = chat_id /\ table[id].user_id = user_id
        THEN [table[id] EXCEPT !.messages = history]
        ELSE table[id]]

conversation(user, chat_id, query) ==
    LET Fail(status, detail, made) ==
            ConversationFail(user, chat_id, query, status, detail, made)
    IN /\ UNCHANGED <<hasConfCol, now>>
       /\ log' = <<>>
       /\ Arrived /\ UNCHANGED <<users, tokens, issued>>
       /\ IF chat_id \notin OwnedBy(chats, user)
          THEN Fail(ConversationRaise(404), "Chat not found", <<>>)
          ELSE LET c == chats[chat_id]
                   stored_history == c.messages
                   context == Replay(SortedTurns(stored_history))
                                \o <<[role |-> "human", content |-> HumanText(c.disease, query)]>>
                   Invoked(raised) == <<[svc |-> "llm", chat |-> chat_id,
                                         context |-> context, raised |-> raised]>>
               IN /\ Len(stored_history) < MaxMsgs
                  /\ IF c.symptoms.kind = "invalid"
                     THEN \* json.loads(chat_row["symptoms"]) raises
                          Fail(500, "Failed to process chat", <<>>)
                     ELSE \/ \* chain.invoke raises; _invoke_and_record re-raises
                             Fail(500, "Failed to process chat", Invoked(TRUE))
                          \/ \E response \in Responses :
                               /\ chats' = UpdateMessages(chats, user, chat_id,
                                               Append(stored_history,
                                                      Turn(NextMsgNum(stored_history),
                                                           query, response)))
                               /\ calls' = Invoked(FALSE)
                               /\ resp' = [op |-> "conversation", user |-> user,
                                           status |-> 200, detail |-> "",
                                           chat_id |-> chat_id, query |-> query,
                                           response |-> response]

\* -------------------------------------------------------------------- /auth
Emails == {"a@x.com", "b@x.com"}
Passwords == {"pw1pw1", "pw2pw2"}

\* SELECT user_id FROM UserProfile WHERE email = ?
UserIdsByEmail(table, email) == {id \in 1..Len(table) : table[id].email = email}

\* Variant: the duplicate check never finds a row.
EmailRegistered_Never(table, email) == FALSE

\* if cursor.fetchone(): the email is already registered
EmailRegistered(table, email) == UserIdsByEmail(table, email) # {}


\* create_refresh_token: secrets.token_urlsafe(32), a value never produced
\* before; the n-th token is n.
create_refresh_token(n) == n + 1

\* create_access_token({"sub": str(user_id)})
create_access_token(user_id) == [sub |-> user_id]

\* INSERT INTO RefreshTokens (user_id, token, expires_at, created_at):
\* expires_at = datetime.now() + timedelta(days=REFRESH_TOKEN_EXPIRE_DAYS)
TokenRow(user_id, token, at) ==
    [user_id |-> user_id, token |-> token, expires_at |-> at + REFRESH_TOKEN_EXPIRE_DAYS]

\* Every auth handler leaves the chat store alone and calls no collaborator.
AuthOnly ==
    /\ UNCHANGED <<chats, hasConfCol, now>>
    /\ calls' = <<>>
    /\ log' = <<>>
    /\ Arrived

signup(email, password) ==
    /\ AuthOnly
    /\ IF EmailRegistered(users, email)
       THEN /\ resp' = [op |-> "signup", status |-> 400, detail |-> "Email already registered",
                        email |-> email, at |-> now]
            /\ UNCHANGED <<users, tokens, issued>>
       ELSE /\ Len(users) < MaxUsers
            /\ issued < MaxTokens
            /\ LET user_id == Len(users) + 1
                   refresh_token == create_refresh_token(issued)
               IN /\ users' = Append(users, UserRow(email, password))
                  /\ tokens' = tokens \cup {TokenRow(user_id, refresh_token, now)}
                  /\ issued' = issued + 1
                  /\ resp' = [op |-> "signup", status |-> 200, detail |-> "",
                              email |-> email, at |-> now, user_id |-> user_id,
                              access_token |-> create_access_token(user_id),
                              refresh_token |-> refresh_token]

login(email, password) ==
    /\ AuthOnly
    /\ UNCHANGED users
    /\ LET found == UserIdsByEmail(users, email)
       IN IF found = {} \/ \A id \in found : ~verify_password(password, users[id].password_hash)
          THEN /\ resp' = [op |-> "login", status |-> 401,
                           detail |-> "Invalid email or password",
                           email |-> email, at |-> now]
               /\ UNCHANGED <<tokens, issued>>
          ELSE /\ issued < MaxTokens
               /\ LET user_id == CHOOSE id \in found : \A other \in found : id <= other
                      refresh_token == create_refresh_token(issued)
                  IN /\ tokens' = tokens \cup {TokenRow(user_id, refresh_token, now)}
                     /\ issued' = issued + 1
                     /\ resp' = [op |-> "login", status |-> 200, detail |-> "",
                                 email |-> email, at |-> now, user_id |-> user_id,
                                 access_token |-> create_access_token(user_id),
                                 refresh_token |-> refresh_token]

\* Variant: the expiry is not part of the lookup.
ValidTokenRows_AnyAge(table, token, at) == {r \in table : r.token = token}

\* SELECT user_id, expires_at FROM RefreshTokens WHERE token = ? AND
\* expires_at > ?  (the second parameter is datetime.now())
ValidTokenRows(table, token, at) ==
    {r \in table : r.token = token /\ r.expires_at > at}

refresh_token(token) ==
    /\ AuthOnly
    /\ UNCHANGED <<users, tokens, issued>>
    /\ LET rows == ValidTokenRows(tokens, token, now)
       IN IF rows = {}
          THEN resp' = [op |-> "refresh", status |-> 401,
                        detail |-> "Invalid or expired refresh token",
                        token |-> token, at |-> now]
          ELSE \E token_row \in rows :
                  resp' = [op |-> "refresh", status |-> 200, detail |-> "",
                           token |-> token, at |-> now,
                           access_token |-> create_access_token(token_row.user_id)]

\* logout: current_user is the caller get_current_user authenticated; the
\* DELETE names the token only.
logout(current_user, token) ==
    /\ AuthOnly
    /\ UNCHANGED <<users, issued>>
    /\ tokens' = {r \in tokens : r.token # token}
    /\ resp' = [op |-> "logout", status |-> 200, detail |-> "Logged out successfully",
                user |-> current_user, token |-> token, at |-> now]

\* PUT /profile: current_user is the caller get_current_user authenticated;
\* a new_password that is not None replaces the caller's password_hash, the
\* email and the sessions stay.  The other fields of the request (name, age,
\* bmi, gender) are columns the model's rows do not carry.
update_profile(current_user, new_password) ==
    /\ AuthOnly
    /\ UNCHANGED <<tokens, issued>>
    /\ users' = IF new_password # None
                THEN [users EXCEPT ![current_user].password_hash = hash_password(new_password)]
                ELSE users
    /\ resp' = [op |-> "update_profile", status |-> 200,
                detail |-> "Profile updated successfully",
                user |-> current_user, email |-> users[current_user].email, at |-> now]

\* Time passes between requests.
Tick(days) ==
    /\ now + days <= MaxDays
    /\ now' = now + days
    /\ UNCHANGED <<chats, hasConfCol, resp, calls, log, pre, preCol,
                   users, tokens, issued, preUsers, preTokens, inflight>>

\* Tokens a request may present: those produced so far and one never produced.
PresentedTokens == 0..issued
TickDays == {3, 4}

InitAuth ==
    /\ chats = <<>>
    /\ hasConfCol = TRUE
    /\ now = 0
    /\ resp = NoResp
    /\ calls = <<>>
    /\ log = <<>>
    /\ pre = chats
    /\ preCol = hasConfCol
    /\ users = <<>>
    /\ tokens = {}
    /\ issued = 0
    /\ preUsers = users
    /\ preTokens = tokens
    /\ NoneInFlight

NextAuth ==
    \/ \E email \in Emails : signup(email, "pw1pw1")
    \/ \E email \in Emails, password \in Passwords : login(email, password)
    \/ \E token \in PresentedTokens : refresh_token(token)
    \/ \E current_user \in 1..Len(users), token \in PresentedTokens :
          logout(current_user, token)
    \/ \E current_user \in 1..Len(users), new_password \in Passwords \cup {None} :
          update_profile(current_user, new_password)
    \/ \E days \in TickDays : Tick(days)

\* Accounts and sessions.
SpecAuth == InitAuth /\ [][NextAuth]_vars

\* ----------------------------------------- signup served by worker processes
\* Variant: UserProfile.email is declared without UNIQUE.
UniqueViolation_NoConstraint(table, email) == FALSE

\* email TEXT NOT NULL UNIQUE: an INSERT of an email the table holds raises
\* sqlite3.IntegrityError.
UniqueViolation(table, email) == UserIdsByEmail(table, email) # {}

\* What a worker keeps of the signup it serves (pc = "insert", then "read")
\* or has just answered (pc = "done"): user_id and refresh_token are the
\* handler's locals once the rows are inserted; overlap is the workers that
\* had passed the existence check for the same email and not yet inserted
\* when this one passed it (history).
SignupLocal(pc, email, password, status, user_id, token, overlap) ==
    [pc |-> pc, op |-> "signup", email |-> email, password |-> password,
     status |-> status, user_id |-> user_id, refresh_token |-> token,
     overlap |-> overlap]

SignupFrame ==
    /\ UNCHANGED <<chats, hasConfCol, now, pre, preCol>>
    /\ preUsers' = users
    /\ preTokens' = tokens
    /\ calls' = <<>>
    /\ log' = <<>>

\* The existence check (main.py 55-57).
SignupCheck(w, email, password) ==
    /\ Free(w)
    /\ SignupFrame
    /\ UNCHANGED <<users, tokens, issued>>
    /\ IF EmailRegistered(users, email)
       THEN /\ resp' = [op |-> "signup", status |-> 400,
                        detail |-> "Email already registered",
                        email |-> email, at |-> now, worker |-> w]
            /\ inflight' = [inflight EXCEPT ![w] = IdleWorker]
       ELSE /\ Len(users) < MaxUsers
            /\ issued < MaxTokens
            /\ inflight' = [inflight EXCEPT ![w] =
                  SignupLocal("insert", email, password, 0, 0, 0,
                              {o \in Workers \ {w} : /\ inflight[o].pc = "insert"
                                                     /\ inflight[o].email = email})]
            /\ UNCHANGED resp

\* The transaction (main.py 59-79): INSERT INTO UserProfile, INSERT INTO
\* RefreshTokens, commit; the rows show to the other workers at the commit.
\* An IntegrityError is not caught by the handler: the connection is closed
\* without a commit and the request answers 500.
SignupInsert(w) ==
    LET local == inflight[w]
        user_id == Len(users) + 1
        token == create_refresh_token(issued)
    IN /\ local.pc = "insert"
       /\ local.op = "signup"
       /\ SignupFrame
       /\ IF UniqueViolation(users, local.email)
          THEN /\ UNCHANGED <<users, tokens, issued>>
               /\ resp' = [op |-> "signup", status |-> 500,
                           detail |-> "Internal Server Error",
                           email |-> local.email, at |-> now, worker |-> w]
               /\ inflight' = [inflight EXCEPT ![w] =
                                  [local EXCEPT !.pc = "done", !.status = 500]]
          ELSE /\ users' = Append(users, UserRow(local.email, local.password))
               /\ tokens' = tokens \cup {TokenRow(user_id, token, now)}
               /\ issued' = issued + 1
               /\ UNCHANGED resp
               /\ inflight' = [inflight EXCEPT ![w] =
                                  [local EXCEPT !.pc = "read", !.user_id = user_id,
                                                !.refresh_token = token]]

\* After the commit (main.py 81-100): SELECT * FROM UserProfile WHERE
\* user_id = ?, the row read back and the answer.
SignupRead(w) ==
    LET local == inflight[w]
        user_row == users[local.user_id]
    IN /\ local.pc = "read"
       /\ local.op = "signup"
       /\ SignupFrame
       /\ UNCHANGED <<users, tokens, issued>>
       /\ resp' = [op |-> "signup", status |-> 200, detail |-> "",
                   email |-> user_row.email, at |-> now, worker |-> w,
                   user_id |-> local.user_id,
                   access_token |-> create_access_token(local.user_id),
                   refresh_token |-> local.refresh_token]
       /\ inflight' = [inflight EXCEPT ![w] = [local EXCEPT !.pc = "done", !.status = 200]]

NextSignupRace ==
    \/ \E w \in Workers, email \in Emails, password \in Passwords :
          SignupCheck(w, email, password)
    \/ \E w \in Workers : SignupInsert(w)
    \/ \E w \in Workers : SignupRead(w)

\* Signup requests served by two worker processes.
SpecSignupRace == InitAuth /\ [][NextSignupRace]_vars

\* ------------------------------------------------ the vectorizer specification
\* Symptom lists of at most MaxLen names, in or out of the vocabulary, with
\* repetitions.
SymptomLists == UNION {[1..n -> Names] : n \in 0..MaxLen}

\* A caller holds a symptom list.
InitVector ==
    /\ \E selected_symptoms \in SymptomLists :
          resp = [op |-> "input", user |-> 0, status |-> 0, detail |-> "",
                  selected_symptoms |-> selected_symptoms]
    /\ chats = <<>>
    /\ hasConfCol = TRUE
    /\ now = 0
    /\ calls = <<>>
    /\ log = <<>>
    /\ pre = chats
    /\ preCol = hasConfCol
    /\ Registered

\* The call create_input_vector(selected_symptoms).
Vectorize ==
    /\ resp.op = "input"
    /\ resp' = [op |-> "create_input_vector", user |-> 0, status |-> 0, detail |-> "",
                selected_symptoms |-> resp.selected_symptoms,
                vector |-> create_input_vector(resp.selected_symptoms)]
    /\ UNCHANGED <<chats, hasConfCol, now, calls, log, pre, preCol,
                   users, tokens, issued, preUsers, preTokens, inflight>>

SpecVector == InitVector /\ [][Vectorize]_vars

Pages == {1, 2}
PerPages == {5, 7}
\* chat ids a request may name: the rows the table can hold and one beyond
RequestIds == 1..(MaxChats + 1)

Next ==
    \/ \E user \in Users, s \in RequestSymptoms : predict(user, s)
    \/ \E user \in Users, page \in Pages, per_page \in PerPages, recompute \in BOOLEAN :
          chat_hist(user, page, per_page, recompute)
    \/ \E user \in Users, chat_id \in RequestIds : update_confidence(user, chat_id)

\* The confidence memoizer: prediction, listing and update-confidence.
Spec == Init /\ [][Next]_vars

\* ---------------------------------------------- the conversation specification
\* Entries a stored log may hold: keys message1, message3 and one key that is
\* not numeric, each with or without a query and a response.
StoredKeys == {[key |-> 1, numeric |-> TRUE], [key |-> 3, numeric |-> TRUE],
               [key |-> 1, numeric |-> FALSE]}
KeyName(k) == "message" \o NatStr(k.key) \o (IF k.numeric THEN "" ELSE "x")
StoredTurns ==
    UNION {[key : {k.key}, numeric : {k.numeric},
            query : {None, "asked in " \o KeyName(k)},
            response : {None, "answered in " \o KeyName(k)}] : k \in StoredKeys}

\* The logs of at most MaxStored such entries, in any storage order; the keys
\* of a JSON object are distinct.
StoredLogs ==
    {h \in UNION {[1..n -> StoredTurns] : n \in 0..MaxStored} :
        \A i, j \in 1..Len(h) :
           (h[i].key = h[j].key /\ h[i].numeric = h[j].numeric) => i = j}

\* An installation holding one chat of user 1 whose message log was written
\* earlier; its symptoms column is a list or text json.loads rejects.
InitChat ==
    /\ \E h \in StoredLogs, sym \in {SymList(<<"fever">>), SymInvalid} :
          chats = <<[LegacyRow(1, sym, 1) EXCEPT !.messages = h]>>
    /\ hasConfCol = TRUE
    /\ now = 2
    /\ resp = NoResp
    /\ calls = <<>>
    /\ log = <<>>
    /\ pre = chats
    /\ preCol = hasConfCol
    /\ Registered

\* The legacy chat is user 1's; new chats are predicted by user 2.
NextChat ==
    \/ predict(2, <<"fever">>)
    \/ \E user \in Users, chat_id \in RequestIds, query \in Queries :
          conversation(user, chat_id, query)

SpecChat == InitChat /\ [][NextChat]_vars

\* --------------------------------- chat-message served by worker processes
\* One /chat-message request served by worker w, in three steps: the SELECT
\* and the context built from the row (main.py 319-369), the call of the LLM
\* (main.py 372), and the UPDATE with the response (main.py 374-401).  After
\* the SELECT the worker holds stored_history as it read it and no lock.
RaceQueries == {"q1", "q2"}
RaceIds == {1, 2}

\* What a worker keeps of the request it serves (pc = "llm", then "write")
\* or has just answered (pc = "done"): context is the conversation handed to
\* the LLM, key the number of the message key it assigned, overlap the
\* workers that had read the same chat's log and not yet written when this
\* one read it (history).
ConvLocal(pc, user, chat_id, query, stored_history, context, response, status, key, overlap) ==
    [pc |-> pc, op |-> "conversation", user |-> user, chat_id |-> chat_id,
     query |-> query, stored_history |-> stored_history, context |-> context,
     response |-> response, status |-> status, key |-> key, overlap |-> overlap]

\* The request of worker w ends: its response.  The worker keeps what it
\* answered only for a turn it wrote.  In this specification pre is the table
\* as it was before the last step of a worker.
ConvAnswer(w, local, detail, made) ==
    /\ resp' = [op |-> "conversation", user |-> local.user, status |-> local.status,
                detail |-> detail, chat_id |-> local.chat_id, query |-> local.query,
                worker |-> w]
               @@ (IF local.status = 200 THEN [response |-> local.response]
                   ELSE << >>)
    /\ calls' = made
    /\ log' = <<>>
    /\ pre' = chats
    /\ preCol' = hasConfCol
    /\ inflight' = [inflight EXCEPT ![w] =
                       IF local.status = 200 THEN local ELSE IdleWorker]

\* The SELECT and what the handler builds from the row it fetched.
ConvBegin(w, user, chat_id, query) ==
    LET Fail ==
            /\ ConvAnswer(w, ConvLocal("done", user, chat_id, query, <<>>, <<>>, None,
                                       ConversationRaise(404), 0, {}),
                          "Failed to process chat", <<>>)
            /\ UNCHANGED chats
    IN /\ Free(w)
       /\ UNCHANGED <<hasConfCol, now, users, tokens, issued, preUsers, preTokens>>
       /\ IF chat_id \notin OwnedBy(chats, user)
          THEN Fail
          ELSE LET c == chats[chat_id]
                   stored_history == c.messages
                   context == Replay(SortedTurns(stored_history))
                                \o <<[role |-> "human", content |-> HumanText(c.disease, query)]>>
               IN /\ Len(stored_history) < MaxMsgs
                  /\ IF c.symptoms.kind = "invalid"
                     THEN Fail
                     ELSE /\ inflight' = [inflight EXCEPT ![w] =
                                ConvLocal("llm", user, chat_id, query,
                                          stored_history, context, None, 0, 0,
                                          {o \in Workers \ {w} :
                                             /\ inflight[o].pc \in {"llm", "write"}
                                             /\ inflight[o].chat_id = chat_id})]
                          /\ pre' = chats
                          /\ UNCHANGED <<chats, resp, calls, log, preCol>>

\* get_query(CHAT_MODEL, ...): the LLM answers, or the call raises and the
\* handler answers 500 with nothing written.
ConvLLM(w) ==
    LET local == inflight[w]
    IN /\ local.pc = "llm"
       /\ UNCHANGED <<chats, hasConfCol, now, users, tokens, issued, preUsers, preTokens>>
       /\ \/ ConvAnswer(w, [local EXCEPT !.pc = "done", !.status = 500],
                        "Failed to process chat",
                        <<[svc |-> "llm", chat |-> local.chat_id,
                           context |-> local.context, raised |-> TRUE]>>)
          \/ \E response \in Responses :
               /\ inflight' = [inflight EXCEPT ![w] =
                                 [local EXCEPT !.pc = "write", !.response = response]]
               /\ pre' = chats
               /\ UNCHANGED <<resp, calls, log, preCol>>

\* The rest of the handler: the next key from the log as it was read, the
\* UPDATE of the whole messages column, the response.
ConvCommit(w) ==
    LET local == inflight[w]
        next_msg_num == NextMsgNum(local.stored_history)
    IN /\ local.pc = "write"
       /\ UNCHANGED <<hasConfCol, now, users, tokens, issued, preUsers, preTokens>>
       /\ chats' = UpdateMessages(chats, local.user, local.chat_id,
                                  Append(local.stored_history,
                                         Turn(next_msg_num, local.query, local.response)))
       /\ ConvAnswer(w, [local EXCEPT !.pc = "done", !.status = 200,
                                      !.key = next_msg_num],
                     "", <<[svc |-> "llm", chat |-> local.chat_id,
                            context |-> local.context, raised |-> FALSE]>>)

\* An installation holding one chat of user 1, whose message log holds at
\* most one turn written earlier, and one chat of user 2.
InitRace ==
    /\ \E h \in {g \in StoredLogs : /\ Len(g) <= 1
                                      /\ \A i \in 1..Len(g) : /\ g[i].query # None
                                                               /\ g[i].response # None} :
          chats = <<[LegacyRow(1, SymList(<<"fever">>), 1) EXCEPT !.messages = h],
                    LegacyRow(2, SymList(<<"cough">>), 2)>>
    /\ hasConfCol = TRUE
    /\ now = 3
    /\ resp = NoResp
    /\ calls = <<>>
    /\ log = <<>>
    /\ pre = chats
    /\ preCol = hasConfCol
    /\ Registered

\* The callers are user 1; chat 2 is not theirs.
NextRace ==
    \/ \E w \in Workers, chat_id \in RaceIds, query \in RaceQueries :
          ConvBegin(w, 1, chat_id, query)
    \/ \E w \in Workers : ConvLLM(w)
    \/ \E w \in Workers : ConvCommit(w)

\* Chat-message requests served by two worker processes.
SpecRace == InitRace /\ [][NextRace]_vars

\* ---------------------------------------------- the two-user specification
\* An installation holding one chat of each user, each with a symptom list,
\* the first with a computed confidence or none; a confidence is stored only
\* in a table that has the column.
InitShared ==
    /\ \E sym \in [1..2 -> {SymList(<<"fever">>), SymList(<<"cough">>)}],
          confidence \in {None, "73.42%"} :
          /\ chats = <<[LegacyRow(1, sym[1], 1) EXCEPT !.confidence = confidence],
                       LegacyRow(2, sym[2], 2)>>
          /\ hasConfCol \in {col \in BOOLEAN : col \/ confidence = None}
    /\ now = 3
    /\ resp = NoResp
    /\ calls = <<>>
    /\ log = <<>>
    /\ pre = chats
    /\ preCol = hasConfCol
    /\ Registered

NextShared ==
    \/ \E user \in Users, chat_id \in RequestIds, query \in Queries :
          conversation(user, chat_id, query)
    \/ \E user \in Users, recompute \in BOOLEAN :
          chat_hist(user, 1, MinPerPage, recompute)
    \/ \E user \in Users, chat_id \in RequestIds : update_confidence(user, chat_id)

\* The chat handlers called by two users on a table holding chats of both.
SpecShared == InitShared /\ [][NextShared]_vars

\* ------------------------------------------------ the listing specification
\* A legacy installation with more rows than one page of MinPerPage holds:
\* ListingChats rows of user 1 and one row of user 2, each with a symptom list
\* and no confidence.  Creation times do not follow the chat ids: each pair
\* of neighbouring ids is swapped in time.
InitListing ==
    /\ chats = [i \in 1..(ListingChats + 1) |->
                  LegacyRow(IF i = 2 THEN 2 ELSE 1,
                            SymList(IF i % 2 = 0 THEN <<"cough">> ELSE <<"fever">>),
                            IF i % 2 = 0 THEN i - 1 ELSE i + 1)]
    /\ hasConfCol \in BOOLEAN
    /\ now = ListingChats + 3
    /\ resp = NoResp
    /\ calls = <<>>
    /\ log = <<>>
    /\ pre = chats
    /\ preCol = hasConfCol
    /\ Registered

NextListing ==
    \E user \in Users, page \in Pages, per_page \in PerPages, recompute \in BOOLEAN :
       chat_hist(user, page, per_page, recompute)

SpecListing == InitListing /\ [][NextListing]_vars

\* ------------------------------------------ chat-history by worker processes
\* One /chat-history request served by worker w, one step per statement it
\* sends to the database; sqlite serialises the statements and the handler
\* holds no lock between them:
\*   ListCount   SELECT COUNT(*)                           (main.py 421-423)
\*   ListPage    SELECT ... LIMIT ? OFFSET ?               (main.py 428-435)
\*   ListRow     PRAGMA table_info, the decision for the row and, where the
\*               row is computed, the classifier call      (main.py 475-539)
\*   ListEnsure  PRAGMA table_info before the write-back   (main.py 545-549)
\*   ListAlter   ALTER TABLE ... ADD COLUMN, commit        (main.py 550-558)
\*   ListUpdate  UPDATE ... SET confidence, commit         (main.py 560-564)
\* What the handler computes between two statements, and the response after
\* the last row, belongs to the step of the statement before it.  The rows
\* are the ones fetched at ListPage; st is the running state of the call
\* (HistStart), local to the worker, and confidence_value the value computed
\* for the row in hand.  No collaborator or storage fault is injected here.
ListLocal(pc, user, page, per_page, recompute_confidence, total_count, ids, i, snapshot, inRow, st, confidence_value) ==
    [pc |-> pc, op |-> "chat_hist", user |-> user, page |-> page, per_page |-> per_page,
     recompute |-> recompute_confidence, total_count |-> total_count, ids |-> ids,
     i |-> i, snapshot |-> snapshot, inRow |-> inRow, st |-> st,
     confidence_value |-> confidence_value]

ListHead(local) ==
    [op |-> "chat_hist", user |-> local.user, status |-> 200, detail |-> "",
     page |-> local.page, per_page |-> local.per_page, recompute |-> local.recompute]

\* What every step of a listing leaves alone.
ListFrame ==
    /\ pre' = chats
    /\ preCol' = hasConfCol
    /\ UNCHANGED <<now, users, tokens, issued, preUsers, preTokens>>

\* with get_db() as conn; SELECT COUNT(*) FROM ChatDetails WHERE user_id = ?
ListCount(w, user, page, per_page, recompute_confidence) ==
    /\ Free(w)
    /\ ListFrame
    /\ UNCHANGED <<chats, hasConfCol, resp, calls, log>>
    /\ inflight' = [inflight EXCEPT ![w] =
                      ListLocal("page", user, page, per_page, recompute_confidence,
                                Cardinality(OwnedBy(chats, user)), <<>>, 1, <<>>, FALSE,
                                [HistStart(<<>>, FALSE) EXCEPT !.faults = MaxFaults],
                                None)]

\* SELECT * FROM ChatDetails WHERE user_id = ? ORDER BY created_at DESC
\* LIMIT ? OFFSET ?; if not chat_data: return ChatHistory(chats=[])
ListPage(w) ==
    LET local == inflight[w]
        ids == PageIds(chats, local.user, local.page, local.per_page)
    IN /\ local.pc = "page"
       /\ local.op = "chat_hist"
       /\ ListFrame
       /\ UNCHANGED <<chats, hasConfCol>>
       /\ IF ids = <<>>
          THEN /\ resp' = ListHead(local) @@ [chats |-> <<>>, pagination |-> <<>>]
               /\ calls' = <<>>
               /\ log' = <<>>
               /\ inflight' = [inflight EXCEPT ![w] = IdleWorker]
          ELSE /\ inflight' = [inflight EXCEPT ![w] =
                                 [local EXCEPT !.pc = "rows", !.ids = ids,
                                               !.snapshot = chats, !.inRow = hasConfCol]]
               /\ UNCHANGED <<resp, calls, log>>

\* chats.append(ChatDetails(...)) for the row in hand, then the next row or,
\* after the last, return ChatHistory(chats=chats, pagination=pagination_info).
ListEmit(w, st) ==
    LET local == inflight[w]
    IN IF local.i < Len(local.ids)
       THEN /\ inflight' = [inflight EXCEPT ![w] =
                              [local EXCEPT !.pc = "rows", !.i = @ + 1, !.st = st,
                                            !.confidence_value = None]]
            /\ UNCHANGED <<resp, calls, log>>
       ELSE /\ inflight' = [inflight EXCEPT ![w] =
                              [local EXCEPT !.pc = "done", !.i = @ + 1, !.st = st,
                                            !.confidence_value = None]]
            /\ calls' = st.calls
            /\ log' = st.log
            /\ resp' = ListHead(local)
                          @@ [chats |-> st.out,
                              pagination |-> <<PaginationInfo(local.page, local.per_page,
                                                              local.total_count)>>]

\* The classifier call for the row in hand and the value formatted from it;
\* the write-back follows in steps of its own.
ListCompute(w, st, stored_symptoms) ==
    LET local == inflight[w]
        id == local.ids[local.i]
        vec == create_input_vector(stored_symptoms)
        prob == PREDICTION_MODEL(vec).prob
    IN /\ inflight' = [inflight EXCEPT ![w] =
                         [local EXCEPT !.pc = "ensure",
                                       !.st = [st EXCEPT !.calls =
                                                 Append(@, ClassifierCall(id, vec, prob))],
                                       !.confidence_value = ConfidenceStr(prob)]]
       /\ UNCHANGED <<resp, calls, log>>

\* The confidence block for the next fetched row up to the classifier call:
\* the PRAGMA answer is the column as it is now, the row is the fetched one.
ListRow(w) ==
    LET local == inflight[w]
        id == local.ids[local.i]
        c == local.snapshot[id]
        st == local.st
    IN /\ local.pc = "rows"
       /\ local.op = "chat_hist"
       /\ ListFrame
       /\ UNCHANGED <<chats, hasConfCol>>
       /\ IF has_valid_confidence(hasConfCol, local.inRow, c.confidence)
          THEN ListEmit(w, Emit(st, id, c, c.confidence))
          ELSE IF c.symptoms.kind \in {"null", "empty"}
          THEN ListEmit(w, Emit(st, id, c, None))
          ELSE LET stored_symptoms == StoredSymptoms(c.symptoms)
               IN IF stored_symptoms = <<>>
                  THEN ListEmit(w, Emit(st, id, c, None))
                  ELSE IF BudgetApplies(local.recompute, hasConfCol)
                  THEN IF st.count > BUDGET
                       THEN ListEmit(w, Emit(st, id, c, PLACEHOLDER))
                       ELSE IF ConnAcceptsAttr
                       THEN ListCompute(w, [st EXCEPT !.count = @ + 1], stored_symptoms)
                       ELSE ListEmit(w, Emit(Logged(st, "compute_error", id),
                                             id, c, PLACEHOLDER))
                  ELSE ListCompute(w, st, stored_symptoms)

\* cursor.execute("PRAGMA table_info(ChatDetails)") of the write-back:
\* if "confidence" not in columns, the ALTER TABLE is next.
ListEnsure(w) ==
    LET local == inflight[w]
    IN /\ local.pc = "ensure"
       /\ local.op = "chat_hist"
       /\ ListFrame
       /\ UNCHANGED <<chats, hasConfCol, resp, calls, log>>
       /\ inflight' = [inflight EXCEPT ![w].pc = IF hasConfCol THEN "update" ELSE "alter"]

\* ALTER TABLE ChatDetails ADD COLUMN confidence TEXT; conn.commit().  When
\* another request added the column since the PRAGMA, sqlite raises
\* "duplicate column name", which the handler passes over.
ListAlter(w) ==
    LET local == inflight[w]
    IN /\ local.pc = "alter"
       /\ local.op = "chat_hist"
       /\ ListFrame
       /\ hasConfCol' = TRUE
       /\ UNCHANGED <<chats, resp, calls, log>>
       /\ inflight' = [inflight EXCEPT ![w].pc = "update"]

\* UPDATE ChatDetails SET confidence = ? WHERE chat_id = ?; conn.commit().
\* Without the column the statement raises and the handler prints the error.
ListUpdate(w) ==
    LET local == inflight[w]
        id == local.ids[local.i]
        c == local.snapshot[id]
    IN /\ local.pc = "update"
       /\ local.op = "chat_hist"
       /\ ListFrame
       /\ UNCHANGED hasConfCol
       /\ IF hasConfCol
          THEN /\ chats' = [chats EXCEPT ![id].confidence = local.confidence_value]
               /\ ListEmit(w, Emit(local.st, id, c, local.confidence_value))
          ELSE /\ UNCHANGED chats
               /\ ListEmit(w, Emit(Logged(local.st, "db_error", id), id, c,
                                   local.confidence_value))

\* One /predict request served by worker w beside the listings, one step per
\* statement of create_chat (db.py 87-147):
\*   PredictBegin   the classifier call, the formatted confidence, the
\*                  creation time and PRAGMA table_info    (main.py 262-291,
\*                                                          db.py 97-101)
\*   PredictAlter   ALTER TABLE ... ADD COLUMN, commit; a failure ("duplicate
\*                  column name") is printed and passed over (db.py 103-112)
\*   PredictInsert  INSERT INTO ChatDetails, commit, the answer
\*                                                          (db.py 117-126)
\* The symptoms are in the vocabulary and no fault is injected.
PredictLocal(pc, user, selected_symptoms, disease, confidence_str, time_str, made) ==
    [pc |-> pc, op |-> "predict", user |-> user, symptoms |-> selected_symptoms,
     disease |-> disease, confidence |-> confidence_str, time_str |-> time_str,
     made |-> made]

\* The workers that serve a predict request which has not inserted its row.
Inserting == {w \in Workers : inflight[w].pc \in {"palter", "insert"}}

PredictBegin(w, user, selected_symptoms) ==
    LET vec == create_input_vector(selected_symptoms)
        prediction == PREDICTION_MODEL(vec)
        found == MappedDiseases(prediction.cls)
        actual_disease == CHOOSE d \in found : TRUE
    IN /\ Free(w)
       /\ invalid_symptoms(selected_symptoms) = <<>>
       /\ found # {}
       /\ Len(chats) + Cardinality(Inserting) < ListingChats + 1 + MaxInserts
       /\ pre' = chats
       /\ preCol' = hasConfCol
       /\ now' = now + 1
       /\ UNCHANGED <<chats, hasConfCol, resp, calls, log, users, tokens, issued,
                      preUsers, preTokens>>
       /\ inflight' = [inflight EXCEPT ![w] =
                         PredictLocal(IF hasConfCol THEN "insert" ELSE "palter", user,
                                      selected_symptoms, actual_disease,
                                      ConfidenceStr(prediction.prob), now,
                                      <<ClassifierCall(0, vec, prediction.prob)>>)]

PredictAlter(w) ==
    /\ inflight[w].pc = "palter"
    /\ ListFrame
    /\ hasConfCol' = TRUE
    /\ UNCHANGED <<chats, resp, calls, log>>
    /\ inflight' = [inflight EXCEPT ![w].pc = "insert"]

PredictInsert(w) ==
    LET local == inflight[w]
        r == create_chat(chats, hasConfCol, local.user, local.time_str, <<>>,
                         local.disease, local.symptoms, local.confidence, FALSE)
    IN /\ local.pc = "insert"
       /\ r.ok
       /\ ListFrame
       /\ UNCHANGED hasConfCol
       /\ chats' = r.table
       /\ calls' = local.made
       /\ log' = <<>>
       /\ resp' = [op |-> "predict", user |-> local.user, status |-> 200, detail |-> "",
                   symptoms |-> local.symptoms, disease |-> local.disease,
                   confidence |-> local.confidence,
                   symptoms_count |-> Len(local.symptoms), chat_id |-> r.id]
       /\ inflight' = [inflight EXCEPT ![w] = IdleWorker]

\* The legacy installation of the listing specification; the callers are
\* user 1 asking for the first page of ListingChats rows.
NextListRace ==
    \/ \E w \in Workers, recompute \in BOOLEAN :
          ListCount(w, 1, 1, ListingChats, recompute)
    \/ \E w \in Workers : ListPage(w)
    \/ \E w \in Workers : ListRow(w)
    \/ \E w \in Workers : ListEnsure(w)
    \/ \E w \in Workers : ListAlter(w)
    \/ \E w \in Workers : ListUpdate(w)
    \/ \E w \in Workers : PredictBegin(w, 1, <<"fever">>)
    \/ \E w \in Workers : PredictAlter(w)
    \/ \E w \in Workers : PredictInsert(w)

\* Chat-history requests served by two worker processes.
SpecListRace == InitListing /\ [][NextListRace]_vars

\* ------------------------------------------------- reading the last request
SeqToSet(seq) == {seq[i] : i \in 1..Len(seq)}

\* The rows a chat-history request r lists, read from the table as it was
\* when the request arrived.
HistIds(table, r) == SeqToSet(PageIds(table, r.user, r.page, r.per_page))

\* The classifier invocations made for chat id, and the probabilities of
\* those that returned.
CallsFor(cs, id) == {k \in 1..Len(cs) : cs[k].svc = "classifier" /\ cs[k].chat = id}
Returned(cs, id) == {cs[k].prob : k \in CallsFor(cs, id)} \ {Raised}
RaisedFor(cs, id) == \E k \in CallsFor(cs, id) : cs[k].prob = Raised

HasLog(lg, ev, id) == \E k \in 1..Len(lg) : lg[k].ev = ev /\ lg[k].chat = id

\* The confidence a chat-history response r carries for chat id.
EntryConf(r, id) ==
    LET k == CHOOSE k \in 1..Len(r.chats) : r.chats[k].chat_id = id
    IN r.chats[k].confidence

\* The spec's validity predicate and "non-empty symptom set".
ValidStored(confidence) == confidence \notin {None, "", "0%", "0.00%"}
NonEmptySymptomList(col) == col.kind = "list" /\ col.items # <<>>
NeedsRecompute(row) == ~ValidStored(row.confidence) /\ NonEmptySymptomList(row.symptoms)

\* ------------------------------------------------------------------ claims
\* In the formulas below resp, calls and log describe the last request, pre
\* is the table it started from and chats the table it left.

\* C1: budget cap.  In one chat-history call without the recompute flag in
\* which 7 chats of the page need recomputation (non-empty symptom set, no
\* valid stored confidence) and no classifier call or write fails, the
\* classifier is invoked for and a value is persisted to at most 5 of them,
\* and those not computed are returned with "0.10%" and still have no stored
\* confidence.
C1_BudgetCap ==
    (resp.op = "chat_hist" /\ ~resp.recompute /\ log = <<>>) =>
       LET need == {id \in HistIds(pre, resp) : NeedsRecompute(pre[id])}
           computed == {id \in need : CallsFor(calls, id) # {}}
           persisted == {id \in need : chats[id].confidence # pre[id].confidence}
       IN Cardinality(need) = 7 =>
            /\ Cardinality(computed) <= 5
            /\ Cardinality(persisted) <= 5
            /\ \A id \in need \ computed :
                  /\ EntryConf(resp, id) = "0.10%"
                  /\ chats[id].confidence = None

\* C2: forced recompute.  With the recompute flag set, every listed chat with
\* a non-empty symptom set is recomputed through the classifier and the
\* result written back, whether or not a valid confidence is stored for it.
C2_ForcedRecompute ==
    (resp.op = "chat_hist" /\ resp.recompute) =>
       \A id \in HistIds(pre, resp) :
          NonEmptySymptomList(pre[id].symptoms) =>
            /\ CallsFor(calls, id) # {}
            /\ (Returned(calls, id) # {} /\ ~HasLog(log, "db_error", id))
                  => chats[id].confidence = EntryConf(resp, id)

\* C3: valid-cached.  Without the recompute flag, a listed chat whose stored
\* confidence is present and not "", "0%" or "0.00%" is returned with exactly
\* the stored string, no classifier call is made for it and its row is
\* unchanged.
C3_ValidCached ==
    (resp.op = "chat_hist" /\ ~resp.recompute) =>
       \A id \in HistIds(pre, resp) :
          ValidStored(pre[id].confidence) =>
            /\ EntryConf(resp, id) = pre[id].confidence
            /\ CallsFor(calls, id) = {}
            /\ chats[id] = pre[id]

\* A listing without the flag has met a chat with a valid stored confidence.
C3_Witness ==
    /\ resp.op = "chat_hist"
    /\ ~resp.recompute
    /\ \E id \in HistIds(pre, resp) :
          /\ ValidStored(pre[id].confidence)
          /\ EntryConf(resp, id) = pre[id].confidence

\* The listing that follows a listing: both without the flag, by the same
\* user, the earlier one (resp, calls, log) having computed and written back
\* the confidence of chat id, which the later one (resp') lists again.
Relisted(id) ==
    /\ resp.op = "chat_hist" /\ ~resp.recompute
    /\ resp'.op = "chat_hist" /\ ~resp'.recompute
    /\ resp'.user = resp.user
    /\ id \in HistIds(pre, resp) \cap HistIds(chats, resp')
    /\ NeedsRecompute(pre[id])
    /\ Returned(calls, id) # {}
    /\ ~HasLog(log, "db_error", id)

\* C4: memoizer idempotence.  A chat-history recompute that succeeds (the
\* classifier returned, the write-back did not fail) leaves the value it
\* returns in the chat's row, replacing what was there; and when a listing
\* without the flag that did so for a chat with a non-empty symptom set and
\* no valid stored confidence is followed by another such listing, the
\* second makes no classifier call for that chat and returns the same value:
\* one classifier call in total.
C4_MemoIdempotent ==
    /\ [](resp.op = "chat_hist" =>
            \A id \in HistIds(pre, resp) :
               (Returned(calls, id) # {} /\ ~HasLog(log, "db_error", id)) =>
                  /\ chats[id].confidence = EntryConf(resp, id)
                  /\ ValidStored(chats[id].confidence))
    /\ [][\A id \in ChatIds(chats) :
            Relisted(id) =>
               /\ Cardinality(CallsFor(calls, id)) = 1
               /\ CallsFor(calls', id) = {}
               /\ EntryConf(resp', id) = EntryConf(resp, id)]_vars

\* A listing without the flag has computed the confidence of a chat that had
\* a symptom list and no valid confidence, and the chat's row now holds the
\* value the listing returned.
C4_Witness ==
    /\ resp.op = "chat_hist"
    /\ ~resp.recompute
    /\ \E id \in HistIds(pre, resp) :
          /\ NeedsRecompute(pre[id])
          /\ Returned(calls, id) # {}
          /\ ~HasLog(log, "db_error", id)
          /\ chats[id].confidence = EntryConf(resp, id)

\* C5: computation failure in a listing.  When vectorization or
\* classification raises for a chat, the call still answers 200 with every
\* chat of the page, that chat carries "0.10%" and its row is unchanged, and
\* the other chats are processed as usual: a valid stored confidence is
\* returned as stored, and a chat needing recomputation is computed.
C5_FailureIsolated ==
    resp.op = "chat_hist" =>
       LET ids == HistIds(pre, resp)
           failed == {id \in ids : RaisedFor(calls, id)}
       IN failed # {} =>
            /\ resp.status = 200
            /\ {resp.chats[k].chat_id : k \in 1..Len(resp.chats)} = ids
            /\ Len(resp.chats) = Cardinality(ids)
            /\ \A id \in failed :
                  /\ EntryConf(resp, id) = "0.10%"
                  /\ chats[id] = pre[id]
            /\ \A id \in ids \ failed :
                  /\ ValidStored(pre[id].confidence) =>
                        /\ EntryConf(resp, id) = pre[id].confidence
                        /\ CallsFor(calls, id) = {}
                  /\ (NeedsRecompute(pre[id]) /\ (preCol \/ resp.recompute)) =>
                        /\ Returned(calls, id) # {}
                        /\ \/ HasLog(log, "db_error", id)
                           \/ chats[id].confidence = EntryConf(resp, id)

\* A listing in which the classifier raised for one chat and returned for
\* another chat of the same page.
C5_Witness ==
    /\ resp.op = "chat_hist"
    /\ resp.status = 200
    /\ \E i, j \in HistIds(pre, resp) :
         /\ RaisedFor(calls, i)
         /\ EntryConf(resp, i) = "0.10%"
         /\ Returned(calls, j) # {}
         /\ ~RaisedFor(calls, j)

\* The listing that follows a listing by the same user, the earlier one
\* having computed a confidence for chat id whose write-back failed, the
\* later one listing the chat again.
RelistedAfterFailedWrite(id) ==
    /\ resp.op = "chat_hist"
    /\ resp'.op = "chat_hist"
    /\ resp'.user = resp.user
    /\ id \in HistIds(pre, resp) \cap HistIds(chats, resp')
    /\ Returned(calls, id) # {}
    /\ HasLog(log, "db_error", id)

\* C6: best-effort write-back.  When the storage update of a freshly computed
\* confidence fails, the listing still answers 200 with the computed value
\* for that chat and the row is unchanged; and the next listing of that chat
\* recomputes it.
C6_BestEffortWriteBack ==
    /\ [](resp.op = "chat_hist" =>
            \A id \in HistIds(pre, resp) :
               (Returned(calls, id) # {} /\ HasLog(log, "db_error", id)) =>
                  /\ resp.status = 200
                  /\ \E p \in Returned(calls, id) :
                        EntryConf(resp, id) = FormatPercent(IF p < 100 THEN 100 ELSE p)
                  /\ chats[id] = pre[id])
    /\ [][\A id \in ChatIds(chats) :
            RelistedAfterFailedWrite(id) => CallsFor(calls', id) # {}]_vars

\* C7: uncomputable.  A listed chat with no valid stored confidence and no
\* non-empty symptom list (NULL, '', not JSON, not a list, or an empty list)
\* is returned with an absent confidence; no classifier call is made for it,
\* nothing is written and the call answers 200.
C7_Uncomputable ==
    resp.op = "chat_hist" =>
       \A id \in HistIds(pre, resp) :
          (~ValidStored(pre[id].confidence) /\ ~NonEmptySymptomList(pre[id].symptoms)) =>
            /\ resp.status = 200
            /\ EntryConf(resp, id) = None
            /\ CallsFor(calls, id) = {}
            /\ ~HasLog(log, "compute_error", id)
            /\ chats[id] = pre[id]

\* A listing has returned an absent confidence for a chat whose symptoms
\* column holds text that is not a non-empty list.
C7_Witness ==
    /\ resp.op = "chat_hist"
    /\ resp.status = 200
    /\ \E id \in HistIds(pre, resp) :
          /\ EntryConf(resp, id) = None
          /\ pre[id].symptoms.kind \in {"invalid", "nonlist", "list"}
          /\ ~NonEmptySymptomList(pre[id].symptoms)

\* The confidence the last request returned for chat id (a new chat for
\* predict).
ReturnedConf(r, id) ==
    IF r.op = "chat_hist" THEN EntryConf(r, id) ELSE r.confidence

\* C8: confidence invariant.  Every stored confidence is absent or a
\* percentage string other than "", "0%" and "0.00%"; every value a predict,
\* chat-history or update-confidence call writes is the classifier's maximum
\* probability clamped to at least 0.001 and formatted as a percentage, and
\* is the value the call returns, so a probability of 0.0 is stored and
\* returned as "0.10%".
C8_ConfidenceInvariant ==
    /\ \A id \in ChatIds(chats) : chats[id].confidence \notin {"", "0%", "0.00%"}
    /\ \A id \in ChatIds(chats) :
          (id > Len(pre) \/ chats[id].confidence # pre[id].confidence) =>
             /\ resp.op \in {"predict", "chat_hist", "update_confidence"}
             /\ \E k \in 1..Len(calls) :
                   /\ calls[k].svc = "classifier"
                   /\ calls[k].chat = (IF resp.op = "predict" THEN 0 ELSE id)
                   /\ calls[k].prob # Raised
                   /\ chats[id].confidence =
                         FormatPercent(IF calls[k].prob < 100 THEN 100 ELSE calls[k].prob)
                   /\ calls[k].prob = 0 => chats[id].confidence = "0.10%"
             /\ ReturnedConf(resp, id) = chats[id].confidence

\* A call for which the classifier returned probability 0.0 has stored
\* "0.10%" in a row that did not hold it.
C8_Witness ==
    \E id \in ChatIds(chats) :
       /\ chats[id].confidence = "0.10%"
       /\ id > Len(pre) \/ pre[id].confidence # "0.10%"
       /\ \E k \in 1..Len(calls) :
             /\ calls[k].svc = "classifier"
             /\ calls[k].chat \in {0, id}
             /\ calls[k].prob = 0

\* C9: chat-message on a chat id that does not exist or belongs to another
\* user answers 404, invokes the LLM zero times and changes no stored chat.
C9_ChatNotFound ==
    (resp.op = "conversation" /\ resp.chat_id \notin OwnedBy(pre, resp.user)) =>
       /\ resp.status = 404
       /\ calls = <<>>
       /\ chats = pre

\* C10: predict with a symptom name outside the vocabulary answers 400,
\* without invoking the classifier and without creating a chat.
C10_UnknownSymptoms ==
    (resp.op = "predict" /\ \E i \in 1..Len(resp.symptoms) :
                                \A j \in 1..Len(SYMPTOMS) : resp.symptoms[i] # SYMPTOMS[j]) =>
       /\ resp.status = 400
       /\ calls = <<>>
       /\ chats = pre


\* ------------------------------------------------------------ chat-message
\* The LLM invocations of the last request.
LLMCalls(cs) == {k \in 1..Len(cs) : cs[k].svc = "llm"}

\* C11: LLM failure in chat-message.  If the LLM call raises, the request
\* ends with the chat-processing server error (500 "Failed to process chat")
\* and every chat's persisted message log is exactly what it was before the
\* request: no turn, partial or complete, is added.
C11_LLMFailure ==
    (resp.op = "conversation" /\ \E k \in LLMCalls(calls) : calls[k].raised) =>
       /\ resp.status = 500
       /\ resp.detail = "Failed to process chat"
       /\ chats[resp.chat_id].messages = pre[resp.chat_id].messages
       /\ chats = pre

\* The LLM raised in a chat-message request on a chat whose log holds turns.
C11_Witness ==
    /\ resp.op = "conversation"
    /\ \E k \in LLMCalls(calls) : calls[k].raised
    /\ pre[resp.chat_id].messages # <<>>

\* The largest numeric key of a log, 0 if it has none.
LargestKey(h) ==
    LET ks == {h[i].key : i \in {j \in 1..Len(h) : h[j].numeric}} \cup {0}
    IN CHOOSE k \in ks : \A m \in ks : m <= k

\* A chat created by predict in the conversation specification, whose only
\* initial row is chat 1.
Predicted(id) == id > 1

\* C12: a successful chat-message appends exactly one turn.  The persisted
\* log after the call is the log as it was at the start of the call, every
\* turn unchanged, plus one entry (query, response) under key message(K+1),
\* K the largest numeric key of that log (0 if none); no other chat changes;
\* so the log of a chat created by predict has keys message1..message n in
\* storage order after n successful calls.
C12_AppendOneTurn ==
    /\ (resp.op = "conversation" /\ resp.status = 200) =>
          LET id == resp.chat_id
              old == pre[id].messages
              new == chats[id].messages
          IN /\ Len(new) = Len(old) + 1
             /\ \A i \in 1..Len(old) : new[i] = old[i]
             /\ new[Len(new)] = [key |-> LargestKey(old) + 1, numeric |-> TRUE,
                                 query |-> resp.query, response |-> resp.response]
             /\ \A other \in ChatIds(chats) \ {id} : chats[other] = pre[other]
             /\ Len(chats) = Len(pre)
    /\ \A id \in ChatIds(chats) :
          Predicted(id) =>
             \A i \in 1..Len(chats[id].messages) :
                /\ chats[id].messages[i].numeric
                /\ chats[id].messages[i].key = i

\* A successful chat-message has appended message4 to a log stored with
\* message3 before message1, and a predicted chat holds two turns.
C12_Witness ==
    /\ resp.op = "conversation"
    /\ resp.status = 200
    /\ LET old == pre[resp.chat_id].messages
       IN /\ Len(old) = 2
          /\ old[1].numeric /\ old[1].key = 3
          /\ old[2].numeric /\ old[2].key = 1
          /\ chats[resp.chat_id].messages[3].key = 4
    /\ \E id \in ChatIds(chats) : Predicted(id) /\ Len(chats[id].messages) >= 2

\* The messages a stored turn contributes to the context: its query, if any,
\* as a human message, then its response, if any, as an AI message.
TurnMessages(msg) ==
    (IF msg.query \notin {None, ""} THEN <<[role |-> "human", content |-> msg.query]>>
     ELSE <<>>)
    \o (IF msg.response \notin {None, ""} THEN <<[role |-> "ai", content |-> msg.response]>>
        ELSE <<>>)

\* Whether turn i of log h is replayed before turn j: by ascending numeric
\* key (a key that is not numeric counting as 0), then by storage position.
\* Every turn is before position Len(h) + 1, that of the new query.
Before(h, i, j) ==
    \/ j > Len(h)
    \/ LET ki == IF h[i].numeric THEN h[i].key ELSE 0
           kj == IF h[j].numeric THEN h[j].key ELSE 0
       IN ki < kj \/ (ki = kj /\ i < j)

\* The number of context messages that precede those of turn i of log h.
RECURSIVE MessagesBefore(_, _, _)
MessagesBefore(h, i, j) ==
    IF j > Len(h) THEN 0
    ELSE (IF Before(h, j, i) THEN Len(TurnMessages(h[j])) ELSE 0)
         + MessagesBefore(h, i, j + 1)

\* C13: replay order.  The LLM is invoked at most once per chat-message
\* request and exactly once when the request succeeds; the context handed to
\* it is the stored turns in ascending numeric key order whatever their
\* storage order, within a turn the query before the response, a missing
\* query or response omitted, followed by the message of the new user query
\* as the last message.
C13_ReplayOrder ==
    resp.op = "conversation" =>
       /\ Cardinality(LLMCalls(calls)) <= 1
       /\ resp.status = 200 => Cardinality(LLMCalls(calls)) = 1
       /\ \A k \in LLMCalls(calls) :
             LET h == pre[resp.chat_id].messages
                 ctx == calls[k].context
             IN /\ Len(ctx) = MessagesBefore(h, Len(h) + 1, 1) + 1
                /\ ctx[Len(ctx)] = [role |-> "human",
                                    content |-> "Disease: " \o pre[resp.chat_id].disease
                                                 \o "\n" \o resp.query]
                /\ \A i \in 1..Len(h) :
                      LET at == MessagesBefore(h, i, 1)
                          own == TurnMessages(h[i])
                      IN \A n \in 1..Len(own) : ctx[at + n] = own[n]

\* The LLM was handed a log stored with message3 before message1, both with
\* a query and a response, which it received with message1 first.
C13_Witness ==
    /\ resp.op = "conversation"
    /\ LLMCalls(calls) # {}
    /\ LET h == pre[resp.chat_id].messages
           ctx == calls[1].context
       IN /\ Len(h) = 2
          /\ h[1].numeric /\ h[1].key = 3 /\ h[2].numeric /\ h[2].key = 1
          /\ Len(ctx) = 5
          /\ ctx[1].content = h[2].query
          /\ ctx[4].content = h[1].response


\* -------------------------------------------------------------------- /auth
\* C14: signup with an email that is already registered answers 400
\* "Email already registered" and creates no user and no refresh token;
\* signup with an unregistered email succeeds and creates exactly one user,
\* with that email, and exactly one refresh token, owned by that user and
\* returned in the response.
C14_SignupDuplicate ==
    resp.op = "signup" =>
       IF \E id \in 1..Len(preUsers) : preUsers[id].email = resp.email
       THEN /\ resp.status = 400
            /\ resp.detail = "Email already registered"
            /\ users = preUsers
            /\ tokens = preTokens
       ELSE /\ resp.status = 200
            /\ Len(users) = Len(preUsers) + 1
            /\ \A id \in 1..Len(preUsers) : users[id] = preUsers[id]
            /\ users[Len(users)].email = resp.email
            /\ resp.user_id = Len(users)
            /\ preTokens \subseteq tokens
            /\ Cardinality(tokens \ preTokens) = 1
            /\ \A r \in tokens \ preTokens :
                  /\ r.user_id = Len(users)
                  /\ r.token = resp.refresh_token
                  /\ \A q \in preTokens : q.token # r.token

\* A signup was refused for an email that a user already holds.
C14_Witness ==
    /\ resp.op = "signup"
    /\ resp.status = 400
    /\ \E id \in 1..Len(users) : users[id].email = resp.email
    /\ tokens # {}

\* C15: refresh-token lifecycle.  /auth/refresh changes nothing and answers
\* 200 with an access token for the owning user if and only if the presented
\* token is stored with an expiry strictly later than the time of the
\* request, and 401 otherwise.  A successful signup or login stores the token
\* it returns for its user with expiry REFRESH_TOKEN_EXPIRE_DAYS later; a
\* stored row leaves the table only by a logout with its token, after which
\* no row holds that token, and a token that is not stored is never stored
\* again: so it is accepted until it expires or is logged out, refused ever
\* after a logout, and refused once expired although its row is still there.
C15_RefreshLifecycle ==
    /\ [](resp.op = "refresh" =>
            LET rows == {r \in tokens : r.token = resp.token /\ r.expires_at > resp.at}
            IN /\ resp.status \in {200, 401}
               /\ resp.status = 200 <=> rows # {}
               /\ resp.status = 200 => \E r \in rows : resp.access_token.sub = r.user_id
               /\ tokens = preTokens
               /\ users = preUsers)
    /\ []((resp.op \in {"signup", "login"} /\ resp.status = 200) =>
            [user_id |-> resp.user_id, token |-> resp.refresh_token,
             expires_at |-> resp.at + REFRESH_TOKEN_EXPIRE_DAYS] \in tokens)
    /\ [](resp.op = "logout" => \A r \in tokens : r.token # resp.token)
    /\ [][\A r \in tokens :
            r \in tokens' \/ (resp'.op = "logout" /\ resp'.token = r.token)]_vars
    /\ [][\A t \in 1..issued :
            (\A r \in tokens : r.token # t) => (\A r \in tokens' : r.token # t)]_vars

\* A refresh was refused at the very instant its token, still stored,
\* expired.
C15_Witness ==
    /\ resp.op = "refresh"
    /\ resp.status = 401
    /\ \E r \in tokens : r.token = resp.token /\ r.expires_at = resp.at


\* ----------------------------------------------------------------- /predict
\* C16: chat creation is atomic with prediction.  A predict that answers 200
\* has added exactly one row to ChatDetails and changed no other: the row is
\* owned by the caller, holds the disease mapped to the classifier's class
\* for the requested symptoms, the requested symptom list, an empty message
\* log and the confidence string of the response, and its id is the chat_id
\* of the response; a predict that does not answer 200 leaves ChatDetails as
\* it was.
C16_AtomicChatCreation ==
    resp.op = "predict" =>
       IF resp.status = 200
       THEN /\ Len(chats) = Len(pre) + 1
            /\ \A id \in ChatIds(pre) : chats[id] = pre[id]
            /\ resp.chat_id = Len(chats)
            /\ LET row == chats[resp.chat_id]
                   cls == PREDICTION_MODEL(create_input_vector(resp.symptoms)).cls
               IN /\ row.user_id = resp.user
                  /\ row.disease = resp.disease
                  /\ \E m \in disease_mapping : m.Encoded = cls /\ m.Disease = row.disease
                  /\ row.symptoms = [kind |-> "list", items |-> resp.symptoms]
                  /\ row.messages = <<>>
                  /\ row.confidence = resp.confidence
                  /\ row.confidence # None
       ELSE chats = pre

\* A predict has answered 200 on a table that already held a chat.
C16_Witness ==
    /\ resp.op = "predict"
    /\ resp.status = 200
    /\ pre # <<>>
    /\ Len(chats) = Len(pre) + 1

\* C17: update-confidence answers 404 when the chat does not exist or is not
\* the caller's, and 400 when its symptoms column holds no non-empty list
\* (absent, empty, not JSON, not a list), each time without a classifier call
\* and with ChatDetails unchanged.  Otherwise it calls the classifier whatever
\* confidence is stored; it then answers 200 or, when the classifier or the
\* storage fails, 500 with ChatDetails unchanged; on 200 the clamped and
\* formatted probability is in the chat's row, is the confidence of the
\* response, and no other row has changed.
C17_UpdateConfidence ==
    resp.op = "update_confidence" =>
       LET id == resp.chat_id IN
       IF id \notin ChatIds(pre) \/ pre[id].user_id # resp.user
       THEN resp.status = 404 /\ calls = <<>> /\ chats = pre
       ELSE IF ~NonEmptySymptomList(pre[id].symptoms)
       THEN resp.status = 400 /\ calls = <<>> /\ chats = pre
       ELSE /\ Cardinality(CallsFor(calls, id)) = 1
            /\ resp.status \in {200, 500}
            /\ resp.status = 500 =>
                  /\ chats = pre
                  /\ \/ RaisedFor(calls, id)
                     \/ resp.detail \in {"Error managing database schema",
                                         "Failed to update confidence"}
            /\ resp.status = 200 =>
                  /\ \E p \in Returned(calls, id) :
                        resp.confidence = FormatPercent(IF p < 100 THEN 100 ELSE p)
                  /\ chats[id].confidence = resp.confidence
                  /\ chats = [pre EXCEPT ![id].confidence = resp.confidence]

\* An update-confidence has recomputed and stored the confidence of a chat
\* that already held a valid one.
C17_Witness ==
    /\ resp.op = "update_confidence"
    /\ resp.status = 200
    /\ ValidStored(pre[resp.chat_id].confidence)
    /\ CallsFor(calls, resp.chat_id) # {}
    /\ chats[resp.chat_id].confidence = resp.confidence

\* C18: create on a table that lacks the confidence column does not fail.  A
\* predict that arrives while the column is missing, with symptoms of the
\* vocabulary and a classifier result that maps to a disease, answers 200
\* with a new chat id, and the row (owner, messages, disease, symptoms,
\* creation time) is persisted.
C18_CreateWithoutColumn ==
    (/\ resp.op = "predict"
     /\ ~preCol
     /\ \E k \in 1..Len(calls) :
           /\ calls[k].svc = "classifier"
           /\ calls[k].prob # Raised
           /\ \E m \in disease_mapping :
                 m.Encoded = PREDICTION_MODEL(calls[k].vec).cls) =>
       /\ resp.status = 200
       /\ Len(chats) = Len(pre) + 1
       /\ resp.chat_id = Len(chats)
       /\ chats[Len(chats)].user_id = resp.user
       /\ chats[Len(chats)].messages = <<>>
       /\ chats[Len(chats)].disease = resp.disease
       /\ chats[Len(chats)].symptoms = [kind |-> "list", items |-> resp.symptoms]


\* -------------------------------------------------------------- vectorizer
\* C19: for every list S of symptom names, create_input_vector returns a
\* vector of length |vocabulary| whose entry is 1 exactly at the vocabulary
\* positions of the names occurring in S and 0 elsewhere; names outside the
\* vocabulary are ignored, so when every name of S is in the vocabulary the
\* number of ones is the number of distinct names in S.
C19_Vectorizer ==
    resp.op = "create_input_vector" =>
       LET S == {resp.selected_symptoms[j] : j \in 1..Len(resp.selected_symptoms)}
           vocabulary == {SYMPTOMS[i] : i \in 1..Len(SYMPTOMS)}
           v == resp.vector
       IN /\ Len(v) = Len(SYMPTOMS)
          /\ \A i \in 1..Len(v) :
                /\ v[i] \in {0, 1}
                /\ v[i] = 1 <=> SYMPTOMS[i] \in S
          /\ S \subseteq vocabulary =>
                Cardinality({i \in 1..Len(v) : v[i] = 1}) = Cardinality(S)

\* The vectorizer was given a list that repeats a vocabulary name and holds
\* a name outside the vocabulary, and marked one position only.
C19_Witness ==
    /\ resp.op = "create_input_vector"
    /\ resp.selected_symptoms = <<"cough", "bogus", "cough">>
    /\ resp.vector = <<0, 1>>


\* -------------------------------------------------------------- pagination
\* The 0-based position of chat id among its owner's chats of table t, newest
\* first.
Position(t, id) ==
    Cardinality({j \in ChatIds(t) : t[j].user_id = t[id].user_id
                                     /\ t[j].created_at > t[id].created_at})

\* C20: chat-history for (page, per_page) returns, newest first, exactly the
\* caller's chats at positions (page-1)*per_page .. page*per_page-1 of the
\* descending creation-time order (at most per_page chats, none of another
\* user), together with pagination metadata whose total is the caller's chat
\* count and whose pages is ceil(total / per_page).
C20_Pagination ==
    resp.op = "chat_hist" =>
       LET mine == {id \in ChatIds(pre) : pre[id].user_id = resp.user}
           first == (resp.page - 1) * resp.per_page
           expected == {id \in mine : /\ first <= Position(pre, id)
                                      /\ Position(pre, id) <= first + resp.per_page - 1}
           n == Cardinality(mine)
       IN /\ resp.status = 200
          /\ Len(resp.chats) = Cardinality(expected)
          /\ Len(resp.chats) <= resp.per_page
          /\ \A k \in 1..Len(resp.chats) :
                /\ resp.chats[k].chat_id \in expected
                /\ Position(pre, resp.chats[k].chat_id) = first + k - 1
                /\ resp.chats[k].created_at = pre[resp.chats[k].chat_id].created_at
          /\ Len(resp.pagination) = 1
          /\ \A i \in 1..Len(resp.pagination) :
                /\ resp.pagination[i].page = resp.page
                /\ resp.pagination[i].per_page = resp.per_page
                /\ resp.pagination[i].total = n
                /\ resp.pagination[i].pages * resp.per_page >= n
                /\ (resp.pagination[i].pages - 1) * resp.per_page < n

\* --------------------------------------------------- concurrent chat-message
\* Workers w and o have both answered a chat-message request for the same
\* chat, w having read the log while o held the same log and had not yet
\* written: both requests read before either wrote, and no third request
\* wrote between the two reads.
Raced(w, o) ==
    /\ w # o
    /\ inflight[w].pc = "done"
    /\ inflight[o].pc = "done"
    /\ inflight[w].chat_id = inflight[o].chat_id
    /\ inflight[w].stored_history = inflight[o].stored_history
    /\ o \in inflight[w].overlap

\* C21: last write wins on the message log.  When two chat-message requests
\* for the same chat both read the log before either writes (the LLM
\* answering both, so that both come to write), both succeed,
\* both assign the same next key, and the persisted log is the one written
\* by the later writer: the log they read plus that request's turn only, the
\* other request's turn being lost.
C21_LastWriteWins ==
    \A w, o \in Workers :
       Raced(w, o) =>
          LET h == inflight[w].stored_history
              id == inflight[w].chat_id
          IN /\ inflight[w].status = 200
             /\ inflight[o].status = 200
             /\ inflight[w].key = inflight[o].key
             /\ inflight[w].key = NextMsgNum(h)
             /\ resp.op = "conversation"
             /\ resp.status = 200
             /\ resp.worker \in {w, o}
             /\ LET later == inflight[resp.worker]
                IN chats[id].messages = Append(h, Turn(later.key, later.query, later.response))

\* Two requests with different queries raced on a log that held a turn; the
\* turn of the first writer is not in the log.
C21_Witness ==
    \E w, o \in Workers :
       /\ Raced(w, o)
       /\ inflight[w].stored_history # <<>>
       /\ inflight[w].query # inflight[o].query
       /\ \E f \in {w, o} \ {resp.worker} :
             \A k \in 1..Len(chats[inflight[w].chat_id].messages) :
                chats[inflight[w].chat_id].messages[k].query # inflight[f].query

\* --------------------------------------------------- the listing's counter
\* The listing calls in flight or just answered.
Listings == {w \in Workers : /\ inflight[w].pc \in {"page", "rows", "ensure", "alter",
                                                    "update", "done"}
                             /\ inflight[w].op = "chat_hist"}

\* Row k of the call was skipped as over budget: the placeholder was returned
\* for it, not from the row, with no classifier call and nothing printed.
SkippedOverBudget(local, k) ==
    LET id == local.ids[k]
    IN /\ local.st.out[k].confidence = PLACEHOLDER
       /\ local.snapshot[id].confidence # PLACEHOLDER
       /\ CallsFor(local.st.calls, id) = {}
       /\ ~HasLog(local.st.log, "compute_error", id)

\* The rows the call itself computed before row k.
ComputedBefore(local, k) ==
    {j \in 1..(k - 1) : CallsFor(local.st.calls, local.ids[j]) # {}}

\* C22: the recomputation budget counter of chat-history is local to one
\* listing call.  It is zero when the call reaches its first row, and a row
\* is skipped as over budget only when the call itself has computed more
\* than the budget before it: what an earlier or a concurrently running call
\* computed never takes a recomputation away from another call.
C22_BudgetLocal ==
    \A w \in Listings :
       LET local == inflight[w]
       IN /\ local.i = 1 => local.st.count = 0
          /\ \A k \in 1..Len(local.st.out) :
                SkippedOverBudget(local, k) =>
                   Cardinality(ComputedBefore(local, k)) > BUDGET

\* A call under the budget (no confidence column when it read its rows, no
\* forced recompute) has answered; while it ran, or before it, another call
\* computed and attempted more rows than the budget; none of its own rows was
\* skipped.
C22_Witness ==
    \E w \in Listings, o \in Workers :
       /\ o # w
       /\ inflight[w].pc = "done"
       /\ ~inflight[w].recompute
       /\ ~inflight[w].inRow
       /\ HasLog(inflight[w].st.log, "compute_error", inflight[w].ids[1])
       /\ o \in Listings
       /\ Len(inflight[o].st.calls) + Len(inflight[o].st.log) > BUDGET
       /\ \A k \in 1..Len(inflight[w].st.out) : ~SkippedOverBudget(inflight[w], k)

\* ------------------------------------------------- what chat-message writes
\* C23: a chat-message request, successful or failed, changes at most the
\* messages field of the chat it names: that chat's disease, symptoms and
\* confidence, and every other chat, are what they were when the request
\* arrived, and no chat is added or removed.
C23_ChatMessageFrame ==
    resp.op = "conversation" =>
       /\ Len(chats) = Len(pre)
       /\ \A id \in ChatIds(pre) :
             /\ chats[id] = [pre[id] EXCEPT !.messages = chats[id].messages]
             /\ id # resp.chat_id => chats[id] = pre[id]
       /\ resp.status # 200 => chats = pre

\* A chat-message request appended a turn to a chat that carries a computed
\* confidence, while the table holds another chat as well.
C23_Witness ==
    /\ resp.op = "conversation"
    /\ resp.status = 200
    /\ chats[resp.chat_id].messages # pre[resp.chat_id].messages
    /\ pre[resp.chat_id].confidence # None
    /\ Len(pre) > 1

\* ------------------------------------------------------------------ /logout
\* C24: logout only revokes the caller's own credentials.  A logout request
\* authenticated as one user deletes no refresh token owned by a different
\* user: every such token stored when the request arrived is stored after
\* it, and is as usable for refresh as it was.
C24_LogoutOwnTokens ==
    resp.op = "logout" =>
       \A r \in preTokens :
          r.user_id # resp.user =>
             /\ r \in tokens
             /\ ValidTokenRows(tokens, r.token, resp.at)
                   = ValidTokenRows(preTokens, r.token, resp.at)

\* ----------------------------------------------------------- chat isolation
\* The chats that were not the caller's when the last request arrived.
Foreign == {id \in ChatIds(pre) : pre[id].user_id # resp.user}

\* C25: chat isolation.  Whatever chat-message, chat-history or
\* update-confidence request a user makes, no chat owned by a different user
\* is returned in the response, passed to the LLM or the classifier, or
\* modified: its row, message log and confidence included, is what it was
\* when the request arrived.
C25_ChatIsolation ==
    resp.op \in {"conversation", "chat_hist", "update_confidence"} =>
       \A id \in Foreign :
          /\ chats[id] = pre[id]
          /\ \A k \in 1..Len(calls) : calls[k].chat # id
          /\ resp.op = "chat_hist" =>
                \A k \in 1..Len(resp.chats) : resp.chats[k].chat_id # id
          /\ (resp.op \in {"conversation", "update_confidence"} /\ resp.chat_id = id)
                => resp.status # 200

\* A listing with forced recompute computed and stored the confidence of the
\* caller's chat while another user's chat, with a symptom list and no
\* confidence, was in the table.
C25_Witness ==
    /\ resp.op = "chat_hist"
    /\ resp.recompute
    /\ calls # <<>>
    /\ chats # pre
    /\ \E id \in Foreign : /\ NonEmptySymptomList(pre[id].symptoms)
                            /\ pre[id].confidence = None

\* ---------------------------------------------------------- concurrent signup
\* Workers w and o have both answered a signup for the same email, w having
\* passed the existence check while o had passed it and not yet inserted.
BothPassedCheck(w, o) ==
    /\ w # o
    /\ inflight[w].pc \in {"read", "done"}
    /\ inflight[o].pc \in {"read", "done"}
    /\ inflight[w].email = inflight[o].email
    /\ o \in inflight[w].overlap

\* The signup worker w serves has committed its rows.
Created(w) == inflight[w].pc = "read" \/ inflight[w].status = 200

\* C26: email uniqueness under concurrency.  Under any interleaving of
\* signup requests no two UserProfile rows share an email, every account has
\* the one refresh token its signup created, and of two requests with the
\* same email that both passed the existence check before either inserted at
\* most one created a user and a refresh token, and answers 200.
C26_EmailUnique ==
    /\ \A i, j \in 1..Len(users) : users[i].email = users[j].email => i = j
    /\ \A i \in 1..Len(users) : Cardinality({r \in tokens : r.user_id = i}) = 1
    /\ Cardinality(tokens) = Len(users)
    /\ \A w, o \in Workers :
          BothPassedCheck(w, o) =>
             /\ ~(Created(w) /\ Created(o))
             /\ Cardinality(UserIdsByEmail(users, inflight[w].email)) = 1

\* Two signups with the same email both passed the existence check before
\* either inserted; one created the account, the other was refused by the
\* table.
C26_Witness ==
    \E w, o \in Workers :
       /\ BothPassedCheck(w, o)
       /\ {inflight[w].status, inflight[o].status} = {200, 500}
       /\ resp.op = "signup"
       /\ resp.status = 500
====
